---- MODULE Spec2Model ----
(***************************************************************************)
(* A model of the RGUI software renderer (pixel-format converters,         *)
(* rectangle compositor, particle simulator) and of the netplay NAT        *)
(* traversal task.                                                         *)
(*                                                                         *)
(* 32-bit machine words are pairs <<hi, lo>> of 16-bit halves, so that     *)
(* unsigned wrap-around and the signed reading of a word are exact.        *)
(* float values are exact rationals held as integers at a fixed scale.     *)
(***************************************************************************)
EXTENDS Integers, Sequences, FiniteSets, TLC

VARIABLES
    fb_width,    \* rgui_frame_buf.width  (texels)
    fb_height,   \* rgui_frame_buf.height (texels)
    fb,          \* rgui_frame_buf.data, row-major: index = y * fb_width + x
    call,        \* the compositor call applied to fb, with its arguments
    oob,         \* TRUE once a write landed outside fb
    ret,         \* the value returned by rgui_draw_particle
    col,         \* the ARGB32 colour handed to a converter: [a, r, g, b]
    convfn,      \* the converter applied to col ("none" before the call)
    pixel,       \* the 16-bit value the converter returned
    fault,       \* TRUE once a converter divided by zero
    effect,      \* rgui->particle_effect
    slot,        \* the index i of the pool slot that is followed
    particle,    \* rgui->particles[slot]: [a, b, c, d]
    phase,       \* "constructed", "seeded" (after init), "stepped" (after a render)
    speed,       \* settings->floats.menu_rgui_particle_effect_speed
    delta_time,  \* gfx_animation_get_delta_time() at the last render
    num_drops,   \* the drop count the last init or render computed (rain)
    seeded,      \* TRUE if init wrote the slot
    touched,     \* TRUE if the last render drew and updated the slot
    respawned,   \* TRUE if the last render reset the slot
    life,        \* renders the particle went through since it was last (re)seeded
    particle_size, \* particle_size of the last render's Snow or Vortex branch, else 0
    r_speed,       \* r_speed of the last render's Vortex branch (1/PosScale), else 0
    rgui_alive,      \* TRUE between a successful rgui_init and rgui_free
    driver_ident,    \* what video_driver_get_ident() returned to the last rgui_init
    platform_format, \* argb32_to_pixel_platform_format
    converted_with,  \* the converters that converted a colour since the last rgui_init
    setting_effect,  \* settings->uints.menu_rgui_particle_effect
    last_width,      \* rgui->last_width
    last_height,     \* rgui->last_height
    force_redraw,    \* rgui->force_redraw
    pool,            \* what rgui->particles was last seeded for: [eff, w, h, by]
    ran,             \* the particle functions the last handler ran, in order
    handler,         \* the menu handler that ran last
    aspect_update_pending, \* rgui->aspect_update_pending
    aspect_commands,       \* CMD_EVENT_VIDEO_SET_ASPECT_RATIO issued by the last handler
    task,                \* the retro_task_t pushed to the task queue
    ntsd,                \* the struct nat_traversal_state_data of the task
    nat_traversal_state, \* the caller's struct natt_status
    notifications,       \* RARCH_NETPLAY_CTL_FINISHED_NAT_TRAVERSAL sent so far
    push_ret,            \* what task_push_netplay_nat_traversal returned
    thumbnails,                  \* fs_thumbnail, mini_thumbnail, mini_left_thumbnail: [path, is_valid, image]
    thumbnail_queue_size,        \* rgui->thumbnail_queue_size
    left_thumbnail_queue_size,   \* rgui->left_thumbnail_queue_size
    show_fs_thumbnail,           \* rgui->show_fs_thumbnail
    menu_rgui_inline_thumbnails, \* settings->bools.menu_rgui_inline_thumbnails
    image_loads,                 \* the image-load tasks in flight, per image type, oldest first
    last_delivery,               \* the data of the last image handed to rgui_load_image
    aspect_call,                 \* menu_rgui_aspect_ratio, vp.full_width, vp.full_height; ret of the last rgui_set_aspect_ratio
    texture_bufs                 \* rgui_background_buf and fs_thumbnail: [width, height, data]

rectVars == <<fb, call, oob, ret>>

convVars == <<col, convfn, pixel, fault>>

partVars == <<effect, slot, particle, phase, speed, delta_time, num_drops,
              seeded, touched, respawned, life, particle_size, r_speed>>

menuVars == <<rgui_alive, driver_ident, platform_format, converted_with,
              setting_effect, last_width, last_height, force_redraw, pool, ran, handler,
              aspect_update_pending, aspect_commands>>

natVars == <<task, ntsd, nat_traversal_state, notifications, push_ret>>

thumbVars == <<thumbnails, thumbnail_queue_size, left_thumbnail_queue_size, show_fs_thumbnail,
               menu_rgui_inline_thumbnails, image_loads, last_delivery>>

bufVars == <<aspect_call, texture_bufs>>

vars == <<fb_width, fb_height, fb, call, oob, ret, col, convfn, pixel, fault,
          effect, slot, particle, phase, speed, delta_time, num_drops,
          seeded, touched, respawned, life, particle_size, r_speed,
          rgui_alive, driver_ident, platform_format, converted_with,
          setting_effect, last_width, last_height, force_redraw, pool, ran, handler,
          aspect_update_pending, aspect_commands,
          task, ntsd, nat_traversal_state, notifications, push_ret,
          thumbnails, thumbnail_queue_size, left_thumbnail_queue_size, show_fs_thumbnail,
          menu_rgui_inline_thumbnails, image_loads, last_delivery,
          aspect_call, texture_bufs>>

(***************************************************************************)
(* Bounds of the model.                                                    *)
(***************************************************************************)
MaxFbW == 5
MaxFbH == 5

(***************************************************************************)
(* 32-bit words.                                                           *)
(***************************************************************************)
Half == 2 ^ 16

FromNat(n) == <<n \div Half, n % Half>>

ToNat(w) == w[1] * Half + w[2]

AddU32(a, b) ==
    LET s == a[2] + b[2]
    IN  <<(a[1] + b[1] + (s \div Half)) % Half, s % Half>>

SubU32(a, b) ==
    LET d == Half + a[2] - b[2]
        borrow == IF d < Half THEN 1 ELSE 0
    IN  <<(Half + a[1] - b[1] - borrow) % Half, d % Half>>

LtU32(a, b) == a[1] < b[1] \/ (a[1] = b[1] /\ a[2] < b[2])

LeU32(a, b) == a = b \/ LtU32(a, b)

\* The word read as a two's complement int.
IsNeg(a) == a[1] >= 32768

LtS32(a, b) ==
    IF IsNeg(a) = IsNeg(b) THEN LtU32(a, b) ELSE IsNeg(a)

LeS32(a, b) == a = b \/ LtS32(a, b)

Zero32 == FromNat(0)

\* The word holding the int v, |v| < 2^31.
FromInt(v) == IF v >= 0 THEN FromNat(v) ELSE SubU32(Zero32, FromNat(-v))

(***************************************************************************)
(* Frame buffer.                                                           *)
(***************************************************************************)
FbSize(w, h) == w * h

\* Texel contents before a call: every texel holds its own value, so a
\* texel that was written is told apart from one that was not.
InitialFb(w, h) == [i \in 0..(FbSize(w, h) - 1) |-> 16 + i]

DARK == 1
LIGHT == 2

\* Values an uninitialised scanline entry may hold.
GarbageVals == {0, 3}

NoCall == [fn |-> "none"]

\* The values the variables of a part hold while another part is modelled.
NoColour == [a |-> 0, r |-> 0, g |-> 0, b |-> 0]

IdleConv == col = NoColour /\ convfn = "none" /\ pixel = 0 /\ fault = FALSE

ZeroParticle == [a |-> 0, b |-> 0, c |-> 0, d |-> 0]

IdlePart ==
    /\ effect = "NONE" /\ slot = 0 /\ particle = ZeroParticle /\ phase = "constructed"
    /\ speed = 0 /\ delta_time = 0 /\ num_drops = 0
    /\ seeded = FALSE /\ touched = FALSE /\ respawned = FALSE /\ life = 0
    /\ particle_size = 0 /\ r_speed = 0

IdleRect == fb = <<>> /\ call = NoCall /\ oob = FALSE /\ ret = FALSE

\* video_driver_get_ident() returning NULL
NoIdent == [present |-> FALSE, name |-> ""]

\* The pool as calloc leaves it
NoSeed == [eff |-> "NONE", w |-> 0, h |-> 0, by |-> "calloc"]

IdleMenu ==
    /\ rgui_alive = FALSE /\ driver_ident = NoIdent /\ platform_format = "rgba4444"
    /\ converted_with = {} /\ setting_effect = "NONE"
    /\ last_width = 0 /\ last_height = 0 /\ force_redraw = FALSE
    /\ pool = NoSeed /\ ran = <<>> /\ handler = "none"
    /\ aspect_update_pending = FALSE /\ aspect_commands = 0

\* No task was allocated yet
NoTask == [hpc |-> "none", seq |-> 0, type |-> "none", progress |-> 0,
           finished |-> FALSE, gathered |-> FALSE, handler_calls |-> 0,
           natt_calls |-> <<>>, block |-> "none"]

NoNtsd == [state |-> "none"]

IdleNat ==
    /\ task = NoTask /\ ntsd = NoNtsd /\ nat_traversal_state = "unset"
    /\ notifications = 0 /\ push_ret = [ret |-> "none", port |-> 0]

\* A thumbnail as the static initialiser leaves it: no path, no image
NoThumbnail == [path |-> "", is_valid |-> FALSE, image |-> ""]

NoDelivery == "nothing"

NoAspectCall == [ratio |-> "4_3", full_width |-> 0, full_height |-> 0, ret |-> FALSE]

\* A buffer after rgui_background_free or rgui_thumbnail_free
NoBuf == [width |-> 0, height |-> 0, data |-> FALSE]

NoTextureBufs == [frame |-> FALSE, background |-> NoBuf, fs_thumbnail |-> NoBuf]

IdleThumb ==
    /\ thumbnails = [t \in {"fs_thumbnail", "mini_thumbnail", "mini_left_thumbnail"} |-> NoThumbnail]
    /\ thumbnail_queue_size = 0 /\ left_thumbnail_queue_size = 0
    /\ show_fs_thumbnail = FALSE /\ menu_rgui_inline_thumbnails = FALSE
    /\ image_loads = [t \in {"THUMBNAIL", "LEFT_THUMBNAIL"} |-> <<>>]
    /\ last_delivery = NoDelivery
    /\ aspect_call = NoAspectCall
    /\ texture_bufs = NoTextureBufs

(***************************************************************************)
(* Pixel format conversion.                                                *)
(***************************************************************************)
Shr(v, n) == v \div (2 ^ n)
Shl(v, n) == v * (2 ^ n)

\* Mutant: the 0.5 is not added before the truncation.
scale_floor(c, num, den, tie_down) == (c * num) \div den

\* (unsigned)(((float)c * a_factor) + 0.5), a_factor = num / den.  The float
\* product is within 2^-20 of the exact one, so the truncation differs from the
\* exact floor only where c * num / den + 1/2 is a whole number: there an
\* inexact a_factor may leave the sum just below it (tie_down).
scale_round(c, num, den, tie_down) ==
    LET n == 2 * c * num + den
        q == n \div (2 * den)
    IN  IF tie_down /\ n % (2 * den) = 0 /\ (num % den) # 0 /\ q > 0 THEN q - 1 ELSE q

\* PS2.  a_factor = a / 255: 2 * c * a + 255 is odd, so no tie ever occurs.
argb32_to_abgr1555(c) ==
    LET sc(v) == IF c.a < 255 THEN scale_round(v, c.a, 255, FALSE) % 256 ELSE v
        r == Shr(sc(c.r), 3)
        g == Shr(sc(c.g), 3)
        b == Shr(sc(c.b), 3)
    IN  [pix |-> Shl(1, 15) + Shl(b, 10) + Shl(g, 5) + r, div0 |-> FALSE]

\* Mutant: the division is made whether a3 is 0 or not.
rgb5a3_divides_unguarded(a, a3) == a < 255

\* GEKKO: whether the division (a4 / 15) / (a3 / 7) is evaluated
rgb5a3_divides(a, a3) == a < 255 /\ a3 > 0

\* Mutant: the scaled channel is not clamped.
rgb5a3_clamp_missing(s) == s

\* (s <= 0xff) ? s : 0xff
rgb5a3_clamp(s) == IF s <= 255 THEN s ELSE 255

argb32_to_rgb5a3(c, tie_down) ==
    LET a3 == Shr(c.a, 5)
        a4 == Shr(c.a, 4)
        divides == rgb5a3_divides(c.a, a3)
        div0 == divides /\ a3 = 0
        num == IF divides THEN a4 * 7 ELSE 1
        den == IF divides /\ ~div0 THEN a3 * 15 ELSE 1
        sc(v) == IF c.a < 255
                 THEN rgb5a3_clamp(scale_round(v, num, den, tie_down))
                 ELSE v
        r == Shr(sc(c.r), 4)
        g == Shr(sc(c.g), 4)
        b == Shr(sc(c.b), 4)
    IN  [pix |-> Shl(a3, 12) + Shl(r, 8) + Shl(g, 4) + b, div0 |-> div0]

\* Mutant: the nibbles are packed in the order of the input (A, R, G, B).
argb32_to_abgr4444_as_argb(c) ==
    [pix |-> Shl(Shr(c.a, 4), 12) + Shl(Shr(c.r, 4), 8) + Shl(Shr(c.g, 4), 4) + Shr(c.b, 4),
     div0 |-> FALSE]

\* PSP
argb32_to_abgr4444(c) ==
    [pix |-> Shl(Shr(c.a, 4), 12) + Shl(Shr(c.b, 4), 8) + Shl(Shr(c.g, 4), 4) + Shr(c.r, 4),
     div0 |-> FALSE]

\* D3D10/11/12
argb32_to_bgra4444(c) ==
    [pix |-> Shl(Shr(c.b, 4), 12) + Shl(Shr(c.g, 4), 8) + Shl(Shr(c.r, 4), 4) + Shr(c.a, 4),
     div0 |-> FALSE]

\* Mutant: the red and blue nibbles change places.
argb32_to_rgba4444_swapped(c) == argb32_to_bgra4444(c)

\* All other platforms
argb32_to_rgba4444(c) ==
    [pix |-> Shl(Shr(c.r, 4), 12) + Shl(Shr(c.g, 4), 8) + Shl(Shr(c.b, 4), 4) + Shr(c.a, 4),
     div0 |-> FALSE]

Converters == {"abgr1555", "rgb5a3", "abgr4444", "bgra4444", "rgba4444"}

convert(fn, c, tie_down) ==
    CASE fn = "abgr1555" -> argb32_to_abgr1555(c)
      [] fn = "rgb5a3"   -> argb32_to_rgb5a3(c, tie_down)
      [] fn = "abgr4444" -> argb32_to_abgr4444(c)
      [] fn = "bgra4444" -> argb32_to_bgra4444(c)
      [] OTHER           -> argb32_to_rgba4444(c)

(***************************************************************************)
(* rgui_fill_rect                                                          *)
(***************************************************************************)
\* x <= fb_width ? x : fb_width
fill_clamp_start(x, limit) ==
    IF LeU32(x, FromNat(limit)) THEN ToNat(x) ELSE limit

\* Mutant: the end is taken from the width alone, the origin forgotten.
fill_clamp_end_no_origin(x, width, limit) ==
    IF LeU32(width, FromNat(limit)) THEN ToNat(width) ELSE limit

\* x_end = x + width; x_end <= fb_width ? x_end : fb_width
fill_clamp_end(x, width, limit) ==
    LET e == AddU32(x, width)
    IN  IF LeU32(e, FromNat(limit)) THEN ToNat(e) ELSE limit

\* (x_end - x_start), an unsigned subtraction
fill_count(x_start, x_end) == SubU32(FromNat(x_end), FromNat(x_start))

\* Entry x_index of scanline_even / scanline_odd as the 'populate' loops
\* leave it, for each of the three fill modes.
scanline_solid(x_index, dark, light) == dark

scanline_normal(even, x_index, dark, light) ==
    LET x_is_even == (x_index % 2 = 0)
    IN  IF even
        THEN (IF x_is_even THEN dark ELSE light)
        ELSE (IF x_is_even THEN light ELSE dark)

scanline_thick(even, x_index, dark, light) ==
    LET x_is_even == ((x_index \div 2) % 2 = 0)
    IN  IF even
        THEN (IF x_is_even THEN dark ELSE light)
        ELSE (IF x_is_even THEN light ELSE dark)

\* Mutant: src_a is scanline_even whatever the parity of y_start.
normal_row_from_origin(y_start, y_index) == ((y_index - y_start) % 2 = 0)

\* Which scanline (TRUE: scanline_even) the normal dither copies to row
\* y_index: src_a to rows y_start, y_start + 2, ..., src_b to the others.
normal_row_is_even(y_start, y_index) ==
    LET a_is_even == (y_start % 2 = 0)
    IN  IF (y_index - y_start) % 2 = 0 THEN a_is_even ELSE ~a_is_even

\* Mutant: the order of case 0x0 is used for every y_start.
thick_row_from_origin(y_start, y_index) == ((y_index - y_start) % 4) \in {0, 1}

\* Which scanline the thick dither copies to row y_index: the switch on
\* (y_start & 0x3) orders src_a .. src_d, copied to rows y_start + k + 4n.
thick_row_is_even(y_start, y_index) ==
    LET k == (y_index - y_start) % 4
        order == CASE y_start % 4 = 1 -> <<TRUE, FALSE, FALSE, TRUE>>
                   [] y_start % 4 = 2 -> <<FALSE, FALSE, TRUE, TRUE>>
                   [] y_start % 4 = 3 -> <<FALSE, TRUE, TRUE, FALSE>>
                   [] OTHER           -> <<TRUE, TRUE, FALSE, FALSE>>
    IN  order[k + 1]

\* The rows in the order the memcpy() loops visit them.
fill_row_order(y_start, y_end, period) ==
    LET rows(k) == {y \in y_start..(y_end - 1) : (y - y_start) % period = k}
        Seq0(S) == LET RECURSIVE ord(_)
                       ord(T) == IF T = {} THEN <<>>
                                 ELSE LET m == CHOOSE t \in T : \A u \in T : t <= u
                                      IN  <<m>> \o ord(T \ {m})
                   IN  ord(S)
        RECURSIVE cat(_)
        cat(k) == IF k >= period THEN <<>> ELSE Seq0(rows(k)) \o cat(k + 1)
    IN  cat(0)

\* The result of rgui_fill_rect: [buf, oob].  garbage is the value read
\* from scanline entries the populate loop did not set.
rgui_fill_rect(data, fbw, fbh, x, y, width, height, dark, light, thickness, garbage) ==
    LET x_start == fill_clamp_start(x, fbw)
        y_start == fill_clamp_start(y, fbh)
        x_end   == fill_clamp_end(x, width, fbw)
        y_end   == fill_clamp_end(y, height, fbh)
        count   == fill_count(x_start, x_end)      \* x_size / sizeof(uint16_t)
        size    == FbSize(fbw, fbh)
        period  == IF dark = light THEN 1 ELSE IF thickness THEN 4 ELSE 2
        order   == fill_row_order(y_start, y_end, period)
        src(y_index, x_index) ==
            IF ~(x_start <= x_index /\ x_index < x_end) THEN garbage
            ELSE IF dark = light THEN scanline_solid(x_index, dark, light)
            ELSE IF thickness
            THEN scanline_thick(thick_row_is_even(y_start, y_index), x_index, dark, light)
            ELSE scanline_normal(normal_row_is_even(y_start, y_index), x_index, dark, light)
        base(k) == order[k] * fbw + x_start          \* dst + (y_index * fb_width)
        covers(k, i) == base(k) <= i /\ LtU32(FromNat(i - base(k)), count)
        last(i) == LET K == {k \in 1..Len(order) : covers(k, i)}
                   IN  IF K = {} THEN 0 ELSE CHOOSE k \in K : \A j \in K : j <= k
    IN  IF count = Zero32
        THEN [buf |-> data, oob |-> FALSE]
        ELSE [buf |-> [i \in DOMAIN data |->
                         IF last(i) = 0 THEN data[i]
                         ELSE src(order[last(i)], x_start + (i - base(last(i))))],
              oob |-> \E k \in 1..Len(order) : covers(k, size)]

(***************************************************************************)
(* rgui_color_rect                                                         *)
(***************************************************************************)
rgui_color_rect(data, fbw, fbh, x, y, width, height, color) ==
    LET x_start == fill_clamp_start(x, fbw)
        y_start == fill_clamp_start(y, fbh)
        x_end   == fill_clamp_end(x, width, fbw)
        y_end   == fill_clamp_end(y, height, fbh)
        written == {y_index * fbw + x_index :
                       y_index \in y_start..(y_end - 1),
                       x_index \in x_start..(x_end - 1)}
    IN  [buf |-> [i \in DOMAIN data |-> IF i \in written THEN color ELSE data[i]],
         oob |-> \E i \in written : i >= FbSize(fbw, fbh)]

(***************************************************************************)
(* rgui_draw_particle                                                      *)
(***************************************************************************)
\* x > 0 ? x : 0, then <= (int)fb_width ? . : fb_width; x is an int
particle_clamp(x, limit) ==
    LET lo == IF LtS32(Zero32, x) THEN x ELSE Zero32
    IN  IF LeS32(lo, FromNat(limit)) THEN ToNat(lo) ELSE limit

\* x_end = x + width is computed unsigned and stored to an int
particle_end(x, width, limit) == particle_clamp(AddU32(x, width), limit)

\* The result of rgui_draw_particle: [buf, oob, ret]
rgui_draw_particle(data, fbw, fbh, x, y, width, height, color) ==
    LET x_start == particle_clamp(x, fbw)
        y_start == particle_clamp(y, fbh)
        x_end   == particle_end(x, width, fbw)
        y_end   == particle_end(y, height, fbh)
        written == {y_index * fbw + x_index :
                       y_index \in y_start..(y_end - 1),
                       x_index \in x_start..(x_end - 1)}
    IN  [buf |-> [i \in DOMAIN data |-> IF i \in written THEN color ELSE data[i]],
         oob |-> \E i \in written : i >= FbSize(fbw, fbh),
         ret |-> (x_end > x_start) /\ (y_end > y_start)]

(***************************************************************************)
(* Compositor calls on a frame buffer: one call per behaviour, its         *)
(* arguments drawn from words around the buffer edges and around the       *)
(* ends of the 32-bit range.                                               *)
(***************************************************************************)
BigWords == {<<65535, 65535>>, <<65535, 65534>>, <<32768, 0>>, <<32767, 65535>>}

XWords == {FromNat(n) : n \in 0..(MaxFbW + 1)} \cup BigWords

YWords == {FromNat(n) : n \in 0..(MaxFbH + 1)} \cup {<<65535, 65535>>}

FbDims == {<<MaxFbW, MaxFbH>>, <<2, 3>>}

InitRect ==
    /\ \E d \in FbDims : /\ fb_width = d[1]
                         /\ fb_height = d[2]
                         /\ fb = InitialFb(d[1], d[2])
    /\ call = NoCall
    /\ oob = FALSE
    /\ ret = FALSE
    /\ IdleConv
    /\ IdlePart
    /\ IdleMenu
    /\ IdleNat
    /\ IdleThumb

CallFillRect ==
    /\ call = NoCall
    /\ \E x \in XWords, width \in XWords, y \in YWords, height \in YWords,
          light \in {DARK, LIGHT}, thickness \in BOOLEAN, garbage \in GarbageVals :
          LET r == rgui_fill_rect(fb, fb_width, fb_height, x, y, width, height,
                                  DARK, light, thickness, garbage)
          IN  /\ (garbage = 0 \/ r.oob)   \* garbage is read only by an overrun
              /\ fb' = r.buf
              /\ oob' = r.oob
              /\ call' = [fn |-> "fill_rect", x |-> x, y |-> y, width |-> width,
                          height |-> height, dark |-> DARK, light |-> light,
                          thickness |-> thickness]
    /\ UNCHANGED <<fb_width, fb_height, ret, convVars, partVars, menuVars, natVars, thumbVars, bufVars>>

CallColorRect ==
    /\ call = NoCall
    /\ \E x \in XWords, width \in XWords, y \in YWords, height \in YWords :
          LET r == rgui_color_rect(fb, fb_width, fb_height, x, y, width, height, DARK)
          IN  /\ fb' = r.buf
              /\ oob' = r.oob
              /\ call' = [fn |-> "color_rect", x |-> x, y |-> y, width |-> width,
                          height |-> height, dark |-> DARK, light |-> DARK,
                          thickness |-> FALSE]
    /\ UNCHANGED <<fb_width, fb_height, ret, convVars, partVars, menuVars, natVars, thumbVars, bufVars>>

CallDrawParticle ==
    /\ call = NoCall
    /\ \E x \in XWords, width \in XWords, y \in YWords, height \in YWords :
          LET r == rgui_draw_particle(fb, fb_width, fb_height, x, y, width, height, DARK)
          IN  /\ fb' = r.buf
              /\ oob' = r.oob
              /\ ret' = r.ret
              /\ call' = [fn |-> "draw_particle", x |-> x, y |-> y, width |-> width,
                          height |-> height, dark |-> DARK, light |-> DARK,
                          thickness |-> FALSE]
    /\ UNCHANGED <<fb_width, fb_height, convVars, partVars, menuVars, natVars, thumbVars, bufVars>>

NextRect == CallFillRect \/ CallColorRect \/ CallDrawParticle

SpecRect == InitRect /\ [][NextRect]_vars

(***************************************************************************)
(* Properties of the compositor.                                           *)
(***************************************************************************)
Tex(cx, cy) == fb[cy * fb_width + cx]

Before(cx, cy) == InitialFb(fb_width, fb_height)[cy * fb_width + cx]

Cols == 0..(fb_width - 1)
Rows == 0..(fb_height - 1)

\* c lies in [x, x + width), x and width read as unsigned numbers
InSpanU(x, width, c) ==
    LeU32(x, FromNat(c)) /\ LtU32(SubU32(FromNat(c), x), width)

\* c lies in [x, x + width), x read as a signed and width as an unsigned number
InSpanS(x, width, c) ==
    LeS32(x, FromNat(c)) /\ LtU32(SubU32(FromNat(c), x), width)

\* [x, x + width) lies inside [0, limit]
SpanInside(x, width, limit) ==
    LeU32(x, FromNat(limit)) /\ LeU32(width, FromNat(limit - ToNat(x)))

IsFill == call.fn = "fill_rect"

\* The clamped rectangle of the fill or colour call
InClamped(cx, cy) ==
    /\ fill_clamp_start(call.x, fb_width) <= cx
    /\ cx < fill_clamp_end(call.x, call.width, fb_width)
    /\ fill_clamp_start(call.y, fb_height) <= cy
    /\ cy < fill_clamp_end(call.y, call.height, fb_height)

\* C1: a flat fill (dark_color = light_color) of a rectangle that lies fully
\* inside the buffer sets every texel of the rectangle to the colour and leaves
\* every other texel as it was, for either value of the thickness flag.
C1_FlatFillExact ==
    (/\ IsFill
     /\ call.dark = call.light
     /\ SpanInside(call.x, call.width, fb_width)
     /\ SpanInside(call.y, call.height, fb_height))
    => \A cx \in Cols, cy \in Rows :
          Tex(cx, cy) = IF InSpanU(call.x, call.width, cx) /\ InSpanU(call.y, call.height, cy)
                        THEN call.dark
                        ELSE Before(cx, cy)

C1_Witness ==
    /\ IsFill
    /\ call.dark = call.light
    /\ call.thickness
    /\ fb_width = MaxFbW
    /\ call.x = FromNat(1) /\ call.width = FromNat(2)
    /\ call.y = FromNat(2) /\ call.height = FromNat(2)
    /\ Tex(1, 2) = DARK /\ Tex(2, 3) = DARK
    /\ Tex(0, 2) = Before(0, 2) /\ Tex(3, 3) = Before(3, 3)

\* C2: rgui_fill_rect and rgui_color_rect never write outside the buffer,
\* for all unsigned 32-bit x, y, width, height (x + width and y + height
\* taken modulo 2^32).
C2_NoOutOfBoundsWrite ==
    (call.fn \in {"fill_rect", "color_rect"}) => ~oob

\* C3: a normal (thin) dither writes dark_color where (x + y) is even and
\* light_color where it is odd, in absolute buffer coordinates, to every texel
\* of the clamped rectangle.
C3_NormalDither ==
    (IsFill /\ call.dark # call.light /\ ~call.thickness)
    => \A cx \in Cols, cy \in Rows :
          InClamped(cx, cy)
          => Tex(cx, cy) = IF (cx + cy) % 2 = 0 THEN call.dark ELSE call.light

C3_Witness ==
    /\ IsFill /\ call.dark # call.light /\ ~call.thickness
    /\ call.x = FromNat(1) /\ call.y = FromNat(1)
    /\ call.width = FromNat(3) /\ call.height = FromNat(3)
    /\ fb_width = MaxFbW
    /\ Tex(1, 1) = DARK /\ Tex(2, 1) = LIGHT /\ Tex(1, 2) = LIGHT /\ Tex(3, 3) = DARK

ThickBlocks ==
    (IsFill /\ call.dark # call.light /\ call.thickness)
    => \A cx \in Cols, cy \in Rows :
          InClamped(cx, cy)
          => Tex(cx, cy) = IF ((cx \div 2) + (cy \div 2)) % 2 = 0
                           THEN call.dark ELSE call.light

\* Texels (cx, cy) and (cx + dx, cy + dy) of the clamped rectangle of a thick
\* dither are equal (same = TRUE) or differ (same = FALSE).
ThickShift(dx, dy, same) ==
    (IsFill /\ call.dark # call.light /\ call.thickness)
    => \A cx \in Cols, cy \in Rows :
          (InClamped(cx, cy) /\ InClamped(cx + dx, cy + dy))
          => ((Tex(cx, cy) = Tex(cx + dx, cy + dy)) <=> same)

\* C4 (as amended): a thick dither writes 2x2 blocks, dark_color where
\* floor(x/2) + floor(y/2) is even and light_color otherwise, in absolute buffer
\* coordinates and for every start row; the pattern repeats every 4 columns and
\* every 4 rows, and a shift by 2 columns or by 2 rows swaps the two colours.
C4_ThickDither ==
    /\ ThickBlocks
    /\ ThickShift(4, 0, TRUE)
    /\ ThickShift(0, 4, TRUE)
    /\ ThickShift(2, 0, FALSE)
    /\ ThickShift(0, 2, FALSE)

C4_Witness ==
    /\ IsFill /\ call.dark # call.light /\ call.thickness
    /\ fb_width = MaxFbW /\ fb_height = MaxFbH
    /\ call.x = FromNat(0) /\ call.width = FromNat(MaxFbW)
    /\ call.y = FromNat(1) /\ call.height = FromNat(MaxFbH)
    /\ Tex(0, 1) = DARK /\ Tex(2, 1) = LIGHT /\ Tex(4, 1) = DARK
    /\ Tex(0, 2) = LIGHT /\ Tex(0, 4) = DARK

\* C4 (as claimed): the 2x2 blocks, with a dither period of 2 columns by
\* 4 rows.
C4_ThickPeriod2x4 ==
    /\ ThickBlocks
    /\ ThickShift(2, 0, TRUE)
    /\ ThickShift(0, 4, TRUE)

\* C5: rgui_draw_particle returns false exactly when the intersection of
\* [x, x + width) x [y, y + height) with the buffer is empty, and writes the
\* colour to exactly the texels of that intersection.
C5_DrawParticleClamped ==
    (call.fn = "draw_particle")
    => LET hit(cx, cy) == /\ InSpanS(call.x, call.width, cx)
                          /\ InSpanS(call.y, call.height, cy)
       IN  /\ ret = (\E cx \in Cols, cy \in Rows : hit(cx, cy))
           /\ \A cx \in Cols, cy \in Rows :
                 Tex(cx, cy) = IF hit(cx, cy) THEN call.dark ELSE Before(cx, cy)

(***************************************************************************)
(* Converter calls: the colour is drawn in the initial state, one          *)
(* converter is applied to it.                                             *)
(***************************************************************************)
AlphaVals == {0, 1, 31, 32, 48, 63, 80, 128, 254, 255}

ChannelVals == {0, 7, 8, 15, 16, 27, 128, 255}

InitConv ==
    /\ col \in [a : AlphaVals, r : ChannelVals, g : ChannelVals, b : ChannelVals]
    /\ convfn = "none"
    /\ pixel = 0
    /\ fault = FALSE
    /\ fb_width = 0
    /\ fb_height = 0
    /\ IdleRect
    /\ IdlePart
    /\ IdleMenu
    /\ IdleNat
    /\ IdleThumb

Convert ==
    /\ convfn = "none"
    /\ \E fn \in Converters, tie_down \in BOOLEAN :
          LET r == convert(fn, col, tie_down)
          IN  /\ convfn' = fn
              /\ pixel' = r.pix
              /\ fault' = r.div0
    /\ UNCHANGED <<col, fb_width, fb_height, rectVars, partVars, menuVars, natVars, thumbVars, bufVars>>

NextConv == Convert

SpecConv == InitConv /\ [][NextConv]_vars

\* Bits [shift, shift + bits) of the pixel
Field(shift, bits) == (pixel \div (2 ^ shift)) % (2 ^ bits)

\* The field layout of each 16-bit format: <<shift, bits>> of A, R, G, B
Layout(fn) ==
    CASE fn = "abgr1555" -> [a |-> <<15, 1>>, b |-> <<10, 5>>, g |-> <<5, 5>>, r |-> <<0, 5>>]
      [] fn = "rgb5a3"   -> [a |-> <<12, 3>>, r |-> <<8, 4>>, g |-> <<4, 4>>, b |-> <<0, 4>>]
      [] fn = "abgr4444" -> [a |-> <<12, 4>>, b |-> <<8, 4>>, g |-> <<4, 4>>, r |-> <<0, 4>>]
      [] fn = "bgra4444" -> [b |-> <<12, 4>>, g |-> <<8, 4>>, r |-> <<4, 4>>, a |-> <<0, 4>>]
      [] OTHER           -> [r |-> <<12, 4>>, g |-> <<8, 4>>, b |-> <<4, 4>>, a |-> <<0, 4>>]

Decoded(fn, ch) == Field(Layout(fn)[ch][1], Layout(fn)[ch][2])

\* The top `bits` bits of an 8-bit channel
Truncated(v, bits) == v \div (2 ^ (8 - bits))

\* C8: for each of the five converters and every input of alpha 255, the
\* output decodes to R, G, B truncated to the channel depth of the format,
\* not rescaled, and to the largest alpha the format holds.
C8_OpaqueRoundTrip ==
    (convfn # "none" /\ col.a = 255)
    => /\ \A ch \in {"r", "g", "b"} :
             Decoded(convfn, ch) = Truncated(col[ch], IF convfn = "abgr1555" THEN 5 ELSE 4)
       /\ Decoded(convfn, "a") = CASE convfn = "abgr1555" -> 1
                                   [] convfn = "rgb5a3"   -> 7
                                   [] OTHER               -> 15

C8_Witness ==
    /\ convfn = "rgba4444"
    /\ col = [a |-> 255, r |-> 255, g |-> 0, b |-> 0]
    /\ Decoded("rgba4444", "r") = 15
    /\ Decoded("rgba4444", "g") = 0
    /\ Decoded("rgba4444", "a") = 15

\* C9: argb32_to_rgb5a3 never divides by zero: when alpha >> 5 is 0 the scale
\* factor is 1.0, the R, G, B fields are the input channels shifted right by 4
\* and the alpha field is 0.
C9_Rgb5a3ZeroAlpha ==
    (convfn = "rgb5a3")
    => /\ ~fault
       /\ (col.a \div 32 = 0)
          => /\ \A ch \in {"r", "g", "b"} : Decoded("rgb5a3", ch) = col[ch] \div 16
             /\ Decoded("rgb5a3", "a") = 0
             /\ pixel < 4096

C9_Witness ==
    /\ convfn = "rgb5a3"
    /\ col = [a |-> 0, r |-> 255, g |-> 128, b |-> 27]
    /\ ~fault
    /\ pixel = 15 * 256 + 8 * 16 + 1

\* C11: argb32_to_abgr1555 always sets bit 15; for alpha < 255 each of R, G, B
\* is first scaled to round(channel * alpha / 255), which stays in [0, 255],
\* for alpha 255 it is taken as it is; the result is cut to its top 5 bits and
\* packed as (b << 10) | (g << 5) | r.
C11_Abgr1555Scaling ==
    (convfn = "abgr1555")
    => LET scaled(v) == IF col.a < 255 THEN (2 * v * col.a + 255) \div 510 ELSE v
       IN  /\ \A ch \in {"r", "g", "b"} : scaled(col[ch]) \in 0..255
           /\ pixel = 32768 + (scaled(col.b) \div 8) * 1024
                            + (scaled(col.g) \div 8) * 32
                            + (scaled(col.r) \div 8)

C11_Witness ==
    /\ convfn = "abgr1555"
    /\ col = [a |-> 128, r |-> 15, g |-> 255, b |-> 0]
    /\ pixel = 32768 + 16 * 32 + 1

\* C12: argb32_to_rgb5a3 clamps every scaled channel to 255 before cutting it
\* to 4 bits, also when the factor (alpha >> 4)/15 : (alpha >> 5)/7 is above 1:
\* each field is the clamped rounded product >> 4 (one less than the rounded
\* product only where the product plus 1/2 is a whole number), a channel whose
\* product reaches 255 gives 15, nothing carries into the alpha field, which
\* is alpha >> 5, and bit 15 is 0.
C12_Rgb5a3Clamped ==
    (convfn = "rgb5a3")
    => LET a3 == col.a \div 32
           a4 == col.a \div 16
           isScaled == col.a < 255 /\ a3 > 0
           cap(v) == IF v > 255 THEN 255 ELSE v
           rounded(v) == (2 * v * a4 * 7 + a3 * 15) \div (2 * a3 * 15)
           tie(v) == (2 * v * a4 * 7 + a3 * 15) % (2 * a3 * 15) = 0
           fields(v) == IF ~isScaled THEN {v \div 16}
                        ELSE IF tie(v) THEN {cap(rounded(v)) \div 16, cap(rounded(v) - 1) \div 16}
                        ELSE {cap(rounded(v)) \div 16}
       IN  /\ pixel < 2 ^ 15
           /\ pixel \div 4096 = a3
           /\ \A ch \in {"r", "g", "b"} :
                 /\ Decoded("rgb5a3", ch) \in fields(col[ch])
                 /\ (isScaled /\ col[ch] * a4 * 7 >= 255 * a3 * 15)
                    => Decoded("rgb5a3", ch) = 15

C12_Witness ==
    /\ convfn = "rgb5a3"
    /\ col = [a |-> 48, r |-> 255, g |-> 0, b |-> 128]
    /\ pixel = 4096 + 15 * 256 + 11

\* Nibble k of a 16-bit value, k = 0 the least significant
Nibble(v, k) == (v \div (16 ^ k)) % 16

\* C13: for every input and every alpha the three 4-bit-alpha converters
\* output the nibbles a >> 4, r >> 4, g >> 4, b >> 4 unscaled, from the most
\* to the least significant nibble (A, B, G, R) for abgr4444, (B, G, R, A) for
\* bgra4444 and (R, G, B, A) for rgba4444; the three outputs for one input are
\* nibble permutations of one another.
C13_FourBitNibbles ==
    (convfn \in {"abgr4444", "bgra4444", "rgba4444"})
    => LET A == col.a \div 16
           R == col.r \div 16
           G == col.g \div 16
           B == col.b \div 16
           abgr == argb32_to_abgr4444(col).pix
           bgra == argb32_to_bgra4444(col).pix
           rgba == argb32_to_rgba4444(col).pix
       IN  /\ pixel = CASE convfn = "abgr4444" -> A * 4096 + B * 256 + G * 16 + R
                         [] convfn = "bgra4444" -> B * 4096 + G * 256 + R * 16 + A
                         [] OTHER               -> R * 4096 + G * 256 + B * 16 + A
           /\ Nibble(abgr, 3) = Nibble(bgra, 0) /\ Nibble(bgra, 0) = Nibble(rgba, 0)
           /\ Nibble(abgr, 2) = Nibble(bgra, 3) /\ Nibble(bgra, 3) = Nibble(rgba, 1)
           /\ Nibble(abgr, 1) = Nibble(bgra, 2) /\ Nibble(bgra, 2) = Nibble(rgba, 2)
           /\ Nibble(abgr, 0) = Nibble(bgra, 1) /\ Nibble(bgra, 1) = Nibble(rgba, 3)

C13_Witness ==
    /\ convfn = "abgr4444"
    /\ col = [a |-> 128, r |-> 255, g |-> 0, b |-> 27]
    /\ pixel = 8 * 4096 + 1 * 256 + 0 * 16 + 15

(***************************************************************************)
(* Particle effects.  One pool slot is followed: every iteration of the    *)
(* loops over rgui->particles reads and writes its own slot only, and      *)
(* rand() is an arbitrary choice.                                          *)
(*                                                                         *)
(* Units: the speed setting in 1/10000; the frame delta time in 1/10000    *)
(* of particle_effect_period; the global speed factor in 1/10000; snow     *)
(* and starfield speeds in 1/100; positions and depths in 1/PosScale.      *)
(***************************************************************************)
RGUI_MAX_FB_WIDTH == 426
RGUI_NUM_PARTICLES == 256

PartFbW == 2
PartFbH == 2
LifeCap == 4

SpeedUnit == 100 * 100
PosScale == 100 * SpeedUnit

\* (int)v of a float v held as n / d
TruncDiv(n, d) == IF n >= 0 THEN n \div d ELSE -((-n) \div d)

\* fmod(n, m): the remainder has the sign of n
Fmod(n, m) == IF n >= 0 THEN n % m ELSE -((-n) % m)

Min(x, y) == IF x <= y THEN x ELSE y

\* Mutant: the frame time is not accounted for.
global_speed_factor_per_frame(spd, dt) == IF spd > 1 THEN spd ELSE SpeedUnit

\* global_speed_factor: the speed setting if it is above 0.0001, else 1.0,
\* times delta time / particle_effect_period
global_speed_factor(spd, dt) ==
    LET base == IF spd > 1 THEN spd ELSE SpeedUnit
    IN  (base * dt) \div SpeedUnit

\* on_screen of a particle drawn at (x, y), x and y ints
draw_on_screen(W, H, x, y, w, h) ==
    rgui_draw_particle(<<>>, W, H, FromInt(x), FromInt(y), FromNat(w), FromNat(h), DARK).ret

(***************************************************************************)
(* Snow, SnowAlt: a, b position; c, d velocity.                            *)
(***************************************************************************)
\* The values of rand() % 64 and rand() % 16 that are explored
SnowInitRand == {0, 16, 63}
SnowStepRandC == {4, 9, 14}
SnowStepRandD == {2, 7, 12}

snow_init(W, H) ==
    { [a |-> x * PosScale, b |-> y * PosScale,
       c |-> (rc - 16) * 10, d |-> (rd - 48) * 10] :
      x \in 0..(W - 1), y \in 0..(H - 1), rc \in SnowInitRand, rd \in SnowInitRand }

\* Mutant: the upper clamp is missing.
snow_clamp_lower_only(v, lo, hi) == IF v < lo THEN lo ELSE v

\* (v < lo) ? lo : v, then (v > hi) ? hi : v
snow_clamp(v, lo, hi) ==
    LET v1 == IF v < lo THEN lo ELSE v
    IN  IF v1 > hi THEN hi ELSE v1

\* Mutant: the test of bit 1 is a test of bit 0.
snow_size_by_parity(eff, i) ==
    IF eff = "SNOW_ALT"
    THEN (IF i % 2 = 0 THEN 2 ELSE IF i % 8 = 7 THEN 3 ELSE 1)
    ELSE 1

\* particle_size of pool slot i
snow_size(eff, i) ==
    IF eff = "SNOW_ALT"
    THEN (IF (i \div 2) % 2 = 0 THEN 2 ELSE IF i % 8 = 7 THEN 3 ELSE 1)
    ELSE 1

snow_step(eff, p, i, W, H, gsf, rc, rd) ==
    LET c1 == snow_clamp(p.c + (rc - 9), -40, 10)
        d1 == snow_clamp(p.d + (rd - 7), -10, 40)
        a1 == Fmod(p.a + gsf * c1, W * PosScale)
        b1 == Fmod(p.b + gsf * d1, H * PosScale)
        size == snow_size(eff, i)
        on_screen == draw_on_screen(W, H, TruncDiv(a1, PosScale), TruncDiv(b1, PosScale),
                                    size, size)
        a2 == IF ~on_screen /\ a1 < 0 THEN a1 + W * PosScale ELSE a1
        b2 == IF ~on_screen /\ b1 < 0 THEN b1 + H * PosScale ELSE b1
    IN  [p |-> [a |-> a2, b |-> b2, c |-> c1, d |-> d1],
         respawned |-> ~on_screen, touched |-> TRUE, drops |-> 0, size |-> size,
         r_speed |-> 0]

(***************************************************************************)
(* Rain: a column (whole texels, never moved); b row in 1/RainScale;       *)
(* c drop length; d drop speed in 1/2400.                                  *)
(***************************************************************************)
RainScale == 2400 * SpeedUnit

rain_weights ==
    [k \in 1..60 |->
        IF k <= 13 THEN 2 ELSE IF k <= 25 THEN 3 ELSE IF k <= 36 THEN 4
        ELSE IF k <= 44 THEN 5 ELSE IF k <= 50 THEN 6 ELSE IF k <= 54 THEN 7
        ELSE IF k <= 57 THEN 8 ELSE IF k <= 59 THEN 9 ELSE 10]

\* The values of rand() that are explored
RainRand == {0, 1, 59, 149}

\* Mutant: the count is not capped at the pool size.
rain_drops_uncapped(W) == (85 * W * RGUI_NUM_PARTICLES) \div (100 * RGUI_MAX_FB_WIDTH)

\* num_drops in rgui_init_particle_effect:
\* (unsigned)(0.85f * (fb_width / RGUI_MAX_FB_WIDTH) * RGUI_NUM_PARTICLES),
\* then capped at RGUI_NUM_PARTICLES
rain_init_num_drops(W) ==
    LET n == (85 * W * RGUI_NUM_PARTICLES) \div (100 * RGUI_MAX_FB_WIDTH)
    IN  IF n < RGUI_NUM_PARTICLES THEN n ELSE RGUI_NUM_PARTICLES

\* num_drops in rgui_render_particle_effect
rain_render_num_drops(W) ==
    LET n == (85 * W * RGUI_NUM_PARTICLES) \div (100 * RGUI_MAX_FB_WIDTH)
    IN  IF n < RGUI_NUM_PARTICLES THEN n ELSE RGUI_NUM_PARTICLES

\* A fresh drop at row y
rain_spawn(W, y) ==
    { [a |-> (rx % (W \div 3)) * 3, b |-> y * RainScale,
       c |-> rain_weights[(rw % 60) + 1],
       d |-> rain_weights[(rw % 60) + 1] * (100 + (rs % 150))] :
      rx \in RainRand, rw \in RainRand, rs \in RainRand }

rain_step(p, W, H, gsf) ==
    LET on_screen == draw_on_screen(W, H, p.a, TruncDiv(p.b, RainScale),
                                    2, p.c)
        b1 == p.b + p.d * gsf
    IN  IF on_screen
        THEN {[p |-> [p EXCEPT !.b = b1], respawned |-> FALSE]}
        ELSE {[p |-> q, respawned |-> TRUE] : q \in rain_spawn(W, 0)}

(***************************************************************************)
(* Starfield: a, b position (texels); c depth; d speed.                    *)
(***************************************************************************)
\* The values of rand() % 20 that are explored
StarRand == {0, 19}

\* The values of rand() % fb_width and rand() % fb_height that are explored:
\* the edges and the centre of projection
StarRandX(W) == {0, W \div 2, W - 1}
StarRandY(H) == {0, H \div 2}

star_spawn(W, H) ==
    { [a |-> x, b |-> y, c |-> W * PosScale, d |-> 100 + r] :
      x \in StarRandX(W), y \in StarRandY(H), r \in StarRand }

\* Mutant: the depth is left as it is.
star_depth_frozen(c, d, gsf) == c

\* particle->c -= particle->d * global_speed_factor
star_depth(c, d, gsf) == c - d * gsf

\* Mutant: a depth of exactly 0 is kept.
star_step_keeps_zero_depth(p, W, H, gsf) ==
    LET focal_length == 2 * W
        x_centre == W \div 2
        y_centre == H \div 2
        x == TruncDiv((p.a - x_centre) * focal_length * PosScale, p.c) + x_centre
        y == TruncDiv((p.b - y_centre) * focal_length * PosScale, p.c) + y_centre
        size == TruncDiv(focal_length * PosScale, 2 * p.c)
        on_screen == draw_on_screen(W, H, x, y, size, size)
        c1 == star_depth(p.c, p.d, gsf)
    IN  IF ~on_screen \/ c1 < 0 \/ size > 16
        THEN {[p |-> q, respawned |-> TRUE] : q \in star_spawn(W, H)}
        ELSE {[p |-> [p EXCEPT !.c = c1], respawned |-> FALSE]}

star_step(p, W, H, gsf) ==
    LET focal_length == 2 * W
        x_centre == W \div 2
        y_centre == H \div 2
        x == TruncDiv((p.a - x_centre) * focal_length * PosScale, p.c) + x_centre
        y == TruncDiv((p.b - y_centre) * focal_length * PosScale, p.c) + y_centre
        size == TruncDiv(focal_length * PosScale, 2 * p.c)
        on_screen == draw_on_screen(W, H, x, y, size, size)
        c1 == star_depth(p.c, p.d, gsf)
    IN  IF ~on_screen \/ c1 <= 0 \/ size > 16
        THEN {[p |-> q, respawned |-> TRUE] : q \in star_spawn(W, H)}
        ELSE {[p |-> [p EXCEPT !.c = c1], respawned |-> FALSE]}

(***************************************************************************)
(* Vortex: a radius (1/PosScale texels); b theta (1/PosScale radians);     *)
(* c radial speed in 1/1000; d rotational speed (1/PosScale radians).      *)
(* The position drawn, which needs cos and sin, is not followed: the       *)
(* result of rgui_draw_particle is not used by this effect.                *)
(***************************************************************************)
\* floor(x * y / z) for 0 <= y <= z, without forming x * y
RECURSIVE MulDivPair(_, _, _)
MulDivPair(x, y, z) ==
    IF x = 0 THEN <<0, 0>>
    ELSE CHOOSE p \in { <<2 * h[1] + (2 * h[2] + (x % 2) * y) \div z,
                           (2 * h[2] + (x % 2) * y) % z>> :
                        h \in {MulDivPair(x \div 2, y, z)} } : TRUE

MulDiv(x, y, z) == MulDivPair(x, y, z)[1]

\* PI in 1/PosScale
PiScaled == 3141593

\* The whole part of sqrt(s), searched between lo and hi
RECURSIVE Isqrt(_, _, _)
Isqrt(s, lo, hi) ==
    IF lo >= hi THEN lo
    ELSE CHOOSE r \in { IF mid * mid <= s THEN Isqrt(s, mid, hi) ELSE Isqrt(s, lo, mid - 1) :
                        mid \in {(lo + hi + 1) \div 2} } : TRUE

\* sqrt(fb_width^2 + fb_height^2) / 2, exact for the sizes explored
vortex_max_radius(W, H) == (Isqrt(W * W + H * H, 0, W + H) * PosScale) \div 2

\* The values of rand() / RAND_MAX (in halves), rand() % 100 and rand() % 50
\* that are explored
VortexRandFrac == {0, 1, 2}
VortexRandC == {49, 99}
VortexRandD == {0, 49}

vortex_spawn(W, H) ==
    { [a |-> PosScale + (f * max_radius) \div 2,
       b |-> g * PiScaled,
       c |-> rc + 1,
       d |-> ((rd + 21) * PiScaled) \div 72000] :
      max_radius \in {vortex_max_radius(W, H)},
      f \in VortexRandFrac, g \in {0, 2}, rc \in VortexRandC, rd \in VortexRandD }

\* Mutant: the size follows (max_radius - a) / max_radius.
vortex_size_inward(a, max_radius) ==
    1 + (7 * (max_radius - a) + max_radius) \div (2 * max_radius)

\* particle_size = 1 + (unsigned)(((1 - ((max_radius - a) / max_radius)) * 3.5) + 0.5)
vortex_size(a, max_radius) == 1 + (7 * a + max_radius) \div (2 * max_radius)

\* Mutant: the radial speed is not scaled up near the centre.
vortex_r_speed_unscaled(a, c, H, gsf) == (c * gsf) \div 10

\* r_speed: c * global_speed_factor, times 1 + 8 * (fb_height - a) / fb_height
\* while 0 < a < fb_height
vortex_r_speed(a, c, H, gsf) ==
    LET r == (c * gsf) \div 10
    IN  IF a > 0 /\ a < H * PosScale
        THEN r + MulDiv(8 * r, H * PosScale - a, H * PosScale)
        ELSE r

\* theta_speed: d * global_speed_factor, times 1 + 6 * ((fb_height - a) / fb_height)^2
\* while 0 < a < fb_height; base_scale_factor is kept in 1/SpeedUnit
vortex_theta_speed(a, d, H, gsf) ==
    LET t == (d * gsf) \div SpeedUnit
        base_scale_factor == (H * PosScale - a) \div (100 * H)
        squared == (base_scale_factor * base_scale_factor) \div SpeedUnit
    IN  IF a > 0 /\ a < H * PosScale
        THEN t + 6 * ((t * squared) \div SpeedUnit)
        ELSE t

vortex_step(p, W, H, gsf) ==
    LET size == vortex_size(p.a, vortex_max_radius(W, H))
        rs == vortex_r_speed(p.a, p.c, H, gsf)
        a1 == p.a - rs
        b1 == p.b + vortex_theta_speed(p.a, p.d, H, gsf)
    IN  IF a1 < 0
        THEN {[p |-> q, respawned |-> TRUE, size |-> size, r_speed |-> rs] :
                 q \in vortex_spawn(W, H)}
        ELSE {[p |-> [p EXCEPT !.a = a1, !.b = b1], respawned |-> FALSE, size |-> size,
               r_speed |-> rs]}

(***************************************************************************)
(* rgui_init_particle_effect, rgui_render_particle_effect                  *)
(***************************************************************************)
\* [p, seeded, drops]: the slot after init
init_outcomes(eff, i, W, H, p) ==
    CASE eff \in {"SNOW", "SNOW_ALT"} ->
            {[p |-> q, seeded |-> TRUE, drops |-> 0] : q \in snow_init(W, H)}
      [] eff = "RAIN" ->
            IF i < rain_init_num_drops(W)
            THEN {[p |-> q, seeded |-> TRUE, drops |-> rain_init_num_drops(W)] :
                     q \in UNION {rain_spawn(W, y) : y \in 0..(H - 1)}}
            ELSE {[p |-> p, seeded |-> FALSE, drops |-> rain_init_num_drops(W)]}
      [] eff = "VORTEX" ->
            {[p |-> q, seeded |-> TRUE, drops |-> 0] : q \in vortex_spawn(W, H)}
      [] eff = "STARFIELD" ->
            {[p |-> q, seeded |-> TRUE, drops |-> 0] : q \in star_spawn(W, H)}
      [] OTHER -> {[p |-> p, seeded |-> FALSE, drops |-> 0]}

\* [p, respawned, touched, drops, size, r_speed]: the slot after a render
render_outcomes(eff, i, W, H, p, gsf) ==
    CASE eff \in {"SNOW", "SNOW_ALT"} ->
            {snow_step(eff, p, i, W, H, gsf, rc, rd) :
                rc \in SnowStepRandC, rd \in SnowStepRandD}
      [] eff = "RAIN" ->
            IF i < rain_render_num_drops(W)
            THEN {[p |-> o.p, respawned |-> o.respawned, touched |-> TRUE,
                   drops |-> rain_render_num_drops(W), size |-> 0, r_speed |-> 0] :
                     o \in rain_step(p, W, H, gsf)}
            ELSE {[p |-> p, respawned |-> FALSE, touched |-> FALSE,
                   drops |-> rain_render_num_drops(W), size |-> 0, r_speed |-> 0]}
      [] eff = "VORTEX" ->
            {[p |-> o.p, respawned |-> o.respawned, touched |-> TRUE, drops |-> 0,
              size |-> o.size, r_speed |-> o.r_speed] : o \in vortex_step(p, W, H, gsf)}
      [] eff = "STARFIELD" ->
            {[p |-> o.p, respawned |-> o.respawned, touched |-> TRUE, drops |-> 0,
              size |-> 0, r_speed |-> 0] : o \in star_step(p, W, H, gsf)}
      [] OTHER -> {[p |-> p, respawned |-> FALSE, touched |-> FALSE, drops |-> 0,
                    size |-> 0, r_speed |-> 0]}

\* rgui_init_particle_effect, called once the effect is selected
InitParticleEffect ==
    /\ phase = "constructed"
    /\ effect # "NONE"
    /\ \E o \in init_outcomes(effect, slot, fb_width, fb_height, particle) :
          /\ particle' = o.p
          /\ seeded' = o.seeded
          /\ num_drops' = o.drops
    /\ phase' = "seeded"
    /\ life' = 0
    /\ UNCHANGED <<fb_width, fb_height, effect, slot, speed, delta_time,
                   touched, respawned, particle_size, r_speed, rectVars, convVars,
                   menuVars, natVars, thumbVars, bufVars>>

\* rgui_render_particle_effect, called once per frame, dt the frame's delta time
RenderParticleEffect(dt) ==
    /\ phase \in {"seeded", "stepped"}
    /\ effect # "NONE"
    /\ \E o \in render_outcomes(effect, slot, fb_width, fb_height, particle,
                                global_speed_factor(speed, dt)) :
          /\ particle' = o.p
          /\ respawned' = o.respawned
          /\ touched' = o.touched
          /\ num_drops' = o.drops
          /\ particle_size' = o.size
          /\ r_speed' = o.r_speed
    /\ delta_time' = dt
    /\ phase' = "stepped"
    /\ life' = IF respawned THEN 1 ELSE Min(life + 1, LifeCap)
    /\ UNCHANGED <<fb_width, fb_height, effect, slot, speed, seeded, rectVars, convVars,
                   menuVars, natVars, thumbVars, bufVars>>

InitPart(effects, dims, slots, speeds) ==
    /\ effect \in effects
    /\ \E d \in dims : fb_width = d[1] /\ fb_height = d[2]
    /\ slot \in slots
    /\ speed \in speeds
    /\ particle = ZeroParticle
    /\ phase = "constructed"
    /\ delta_time = 0 /\ num_drops = 0
    /\ seeded = FALSE /\ touched = FALSE /\ respawned = FALSE /\ life = 0
    /\ particle_size = 0 /\ r_speed = 0
    /\ IdleRect
    /\ IdleConv
    /\ IdleMenu
    /\ IdleNat
    /\ IdleThumb

(***************************************************************************)
(* Snow.                                                                   *)
(***************************************************************************)
InitSnow == InitPart({"SNOW", "SNOW_ALT"}, {<<PartFbW, PartFbH>>}, {0, 2, 7}, {5 * SpeedUnit})

RenderSnow == \E dt \in {SpeedUnit} : RenderParticleEffect(dt)

NextSnow == InitParticleEffect \/ RenderSnow

SpecSnow == InitSnow /\ [][NextSnow]_vars

\* C6: under Snow and SnowAlt, after every render step the horizontal velocity
\* (c) lies in [-0.4, 0.1] and the vertical velocity (d) in [-0.1, 0.4].
C6_SnowVelocityClamped ==
    (effect \in {"SNOW", "SNOW_ALT"} /\ phase = "stepped")
    => /\ -40 <= particle.c /\ particle.c <= 10
       /\ -10 <= particle.d /\ particle.d <= 40

C6_Witness ==
    /\ effect = "SNOW_ALT"
    /\ phase = "stepped"
    /\ life >= 2
    /\ particle.c = 10
    /\ particle.d = -10

(***************************************************************************)
(* Rain.                                                                   *)
(***************************************************************************)
RainWidths == {3, 213, 426, 501, 502, 600}

RainSlots == {0, 1, 107, 108, 216, 217, 254, 255}

InitRain ==
    InitPart({"RAIN"}, {<<w, PartFbH>> : w \in RainWidths}, RainSlots, {SpeedUnit})

RenderRain == \E dt \in {SpeedUnit, 2 * SpeedUnit} : RenderParticleEffect(dt)

NextRain == InitParticleEffect \/ RenderRain

SpecRain == InitRain /\ [][NextRain]_vars

\* min(256, floor(0.85 * 256 * W / 426))
ClaimedDrops(W) == Min(256, (2176 * W) \div 4260)

\* C7: under Rain the number of active drops is
\* min(256, floor(0.85 * 256 * fb_width / 426)): 217 at width 426, 108 at
\* width 213, never above 256; init and render compute the same count, so a
\* render touches exactly the slots that init seeded.
C7_RainDropCount ==
    (effect = "RAIN" /\ phase # "constructed")
    => /\ num_drops = ClaimedDrops(fb_width)
       /\ num_drops <= 256
       /\ (fb_width = 426 => num_drops = 217)
       /\ (fb_width = 213 => num_drops = 108)
       /\ seeded = (slot < num_drops)
       /\ (phase = "stepped" => touched = seeded)

C7_Witness ==
    /\ effect = "RAIN"
    /\ phase = "stepped"
    /\ fb_width = 213
    /\ slot = 107
    /\ num_drops = 108
    /\ seeded /\ touched
    /\ respawned

(***************************************************************************)
(* Starfield.                                                              *)
(***************************************************************************)
InitStar ==
    InitPart({"STARFIELD"}, {<<2 * PartFbW, PartFbH + 1>>}, {0, 255},
             {0, SpeedUnit \div 2, SpeedUnit})

\* 16.66 ms is 9996/10000 of the 60 Hz period
RenderStar == \E dt \in {9996, 2 * SpeedUnit} : RenderParticleEffect(dt)

NextStar == InitParticleEffect \/ RenderStar

SpecStar == InitStar /\ [][NextStar]_vars

\* Frames keep coming while the menu is shown.
FairSpecStar == SpecStar /\ WF_vars(NextStar)

(***************************************************************************)
(* Vortex.                                                                 *)
(***************************************************************************)
\* Frame buffer sizes whose diagonal is a whole number; at the last one a
\* particle can be spawned at a radius above fb_height
VortexDims == {<<320, 240>>, <<256, 192>>, <<360, 192>>}

InitVortex == InitPart({"VORTEX"}, VortexDims, {0}, {5 * SpeedUnit})

RenderVortex == \E dt \in {4 * SpeedUnit} : RenderParticleEffect(dt)

NextVortex == InitParticleEffect \/ RenderVortex

SpecVortex == InitVortex /\ [][NextVortex]_vars

\* rgui_render_particle_effect is called on every frame
FairSpecVortex == SpecVortex /\ WF_vars(NextVortex)

(***************************************************************************)
(* All effects under several speed settings and frame times.               *)
(***************************************************************************)
\* menu_rgui_particle_effect_speed: negative, 0, 0.0001, 1.0, 3.0
SpeedSettings == {-SpeedUnit, 0, 1, SpeedUnit, 3 * SpeedUnit}

\* Frame times: half, one and two nominal periods
FrameTimes == {SpeedUnit \div 2, SpeedUnit, 2 * SpeedUnit}

InitSpeed ==
    \/ InitPart({"RAIN", "VORTEX", "STARFIELD"}, {<<8, 6>>}, {0}, SpeedSettings)
    \/ InitPart({"SNOW"}, {<<2, 2>>}, {0}, {0, SpeedUnit})

\* The frame time varies from frame to frame under Rain and Starfield; Snow and
\* Vortex are followed at one frame time each
RenderSpeed ==
    \E dt \in (CASE effect = "SNOW"   -> {5 * SpeedUnit}
                 [] effect = "VORTEX" -> {2 * SpeedUnit}
                 [] OTHER             -> FrameTimes) :
        RenderParticleEffect(dt)

NextSpeed == InitParticleEffect \/ RenderSpeed

SpecSpeed == InitSpeed /\ [][NextSpeed]_vars

\* C10: under Starfield with a positive speed factor the depth (c) strictly
\* decreases on every render in which the particle is not respawned, and the
\* particle is respawned (depth reset to the buffer width) after finitely many
\* renders, again and again.
C10_StarfieldRespawns ==
    /\ [][(phase' = "stepped" /\ ~respawned') => particle'.c < particle.c]_vars
    /\ [][(phase' = "stepped" /\ respawned') => particle'.c = fb_width * PosScale]_vars
    /\ []<>(phase = "stepped" /\ respawned)

C10_Witness ==
    /\ effect = "STARFIELD"
    /\ phase = "stepped"
    /\ speed = SpeedUnit
    /\ delta_time = 9996
    /\ respawned
    /\ life >= 4
    /\ particle.c = fb_width * PosScale

(***************************************************************************)
(* The menu driver: rgui_init, rgui_frame, rgui_render, rgui_free and the  *)
(* image loaders, called by the frontend in any order while the menu is    *)
(* alive.  The pool is followed by what it was seeded for; fb_width and    *)
(* fb_height are the size gfx_display_get_fb_size() reports.  The build    *)
(* modelled is the one without GEKKO.                                      *)
(***************************************************************************)
MenuEffects == {"NONE", "SNOW", "RAIN", "STARFIELD"}

\* Frame buffer sizes rgui_set_aspect_ratio sets: 4:3, 16:9, downscaled
MenuDims == {<<320, 240>>, <<426, 240>>, <<256, 192>>}

Ident(name) == [present |-> TRUE, name |-> name]

Idents == {NoIdent} \cup {Ident(n) : n \in {"", "ps2", "gx", "psp1", "d3d10", "d3d11",
                                             "d3d12", "gl", "PS2"}}

\* Mutant: "d3d12" is not among the names compared.
set_pixel_format_without_d3d12(ident) ==
    IF ~ident.present \/ ident.name = "" THEN "rgba4444"
    ELSE CASE ident.name = "ps2"   -> "abgr1555"
           [] ident.name = "gx"    -> "rgb5a3"
           [] ident.name = "psp1"  -> "abgr4444"
           [] ident.name \in {"d3d10", "d3d11"} -> "bgra4444"
           [] OTHER                -> "rgba4444"

\* The converter rgui_set_pixel_format_function selects for driver_ident
rgui_set_pixel_format_function(ident) ==
    IF ~ident.present \/ ident.name = "" THEN "rgba4444"
    ELSE CASE ident.name = "ps2"   -> "abgr1555"
           [] ident.name = "gx"    -> "rgb5a3"
           [] ident.name = "psp1"  -> "abgr4444"
           [] ident.name \in {"d3d10", "d3d11", "d3d12"} -> "bgra4444"
           [] OTHER                -> "rgba4444"

\* The entries of ran
InitEntry(eff, w, h) == [fn |-> "rgui_init_particle_effect", eff |-> eff, w |-> w, h |-> h]

RenderEntry(eff, w, h, changed, seed) ==
    [fn |-> "rgui_render_particle_effect", eff |-> eff, w |-> w, h |-> h,
     fb_size_changed |-> changed, pool |-> seed]

Seed(eff, w, h, by) == [eff |-> eff, w |-> w, h |-> h, by |-> by]

\* Mutant: the pool is seeded only when no effect was active before.
frame_reseeds_from_none_only(configured, active) ==
    configured # active /\ configured # "NONE" /\ active = "NONE"

\* rgui_frame: whether rgui_init_particle_effect is called
frame_reseeds(configured, active) == configured # active /\ configured # "NONE"

\* Mutant: the size change is not looked at.
render_reseeds_never(changed, active) == FALSE

\* rgui_render: whether rgui_init_particle_effect is called
render_reseeds(changed, active) == changed /\ active # "NONE"

\* Mutant: the effect is not tested.
render_steps_always(active) == TRUE

\* rgui_render: whether rgui_render_particle_effect is called
render_steps(active) == active # "NONE"

\* Mutant: the command is issued whatever delay_update says.
rgui_set_video_config_at_once(pending, called, delay_update) ==
    IF ~called THEN [pending |-> pending, commands |-> 0]
    ELSE [pending |-> FALSE, commands |-> 1]

\* rgui_set_video_config when called; nothing when not: the flag after, and
\* the number of CMD_EVENT_VIDEO_SET_ASPECT_RATIO issued
rgui_set_video_config(pending, called, delay_update) ==
    IF ~called THEN [pending |-> pending, commands |-> 0]
    ELSE IF delay_update THEN [pending |-> TRUE, commands |-> 0]
    ELSE [pending |-> FALSE, commands |-> 1]

\* Mutant: the flag is not cleared.
render_applies_pending_keeps_flag(pending) ==
    [pending |-> pending, commands |-> IF pending THEN 1 ELSE 0]

\* rgui_render, after its sanity check: a pending update is applied
render_applies_pending(pending) ==
    [pending |-> FALSE, commands |-> IF pending THEN 1 ELSE 0]

InitMenu ==
    /\ IdleMenu
    /\ IdleNat
    /\ IdleThumb
    /\ IdleRect
    /\ IdleConv
    /\ IdlePart
    /\ fb_width = 0
    /\ fb_height = 0

menuIdle == <<fb, call, oob, ret, col, convfn, pixel, fault, slot, particle, phase,
              speed, delta_time, num_drops, seeded, touched, respawned, life,
              particle_size, r_speed, natVars, thumbVars, bufVars>>

\* rgui_init; ok is FALSE when rgui_set_aspect_ratio cannot allocate; locked:
\* the aspect ratio lock is on, rgui_set_aspect_ratio sets the video config
RguiInit ==
    /\ ~rgui_alive
    /\ \E ident \in Idents, ok \in BOOLEAN, d \in MenuDims, locked \in BOOLEAN :
          LET fmt == rgui_set_pixel_format_function(ident)
              seeds == ok /\ setting_effect # "NONE"
          IN  /\ driver_ident' = ident
              /\ platform_format' = fmt
              /\ rgui_alive' = ok
              /\ converted_with' = IF ok THEN {fmt} ELSE {}
              /\ fb_width' = IF ok THEN d[1] ELSE 0
              /\ fb_height' = IF ok THEN d[2] ELSE 0
              /\ last_width' = IF ok THEN d[1] ELSE 0
              /\ last_height' = IF ok THEN d[2] ELSE 0
              /\ effect' = IF ok THEN setting_effect ELSE "NONE"
              /\ force_redraw' = ok
              /\ pool' = IF seeds THEN Seed(setting_effect, d[1], d[2], "rgui_init")
                         ELSE NoSeed
              /\ ran' = IF seeds THEN <<InitEntry(setting_effect, d[1], d[2])>> ELSE <<>>
              /\ LET o == rgui_set_video_config(FALSE, ok /\ locked, FALSE)
                 IN  aspect_update_pending' = o.pending /\ aspect_commands' = o.commands
    /\ handler' = "rgui_init"
    /\ UNCHANGED <<setting_effect, menuIdle>>

RguiFree ==
    /\ rgui_alive
    /\ rgui_alive' = FALSE
    /\ ran' = <<>>
    /\ handler' = "rgui_free"
    /\ aspect_commands' = 0
    /\ UNCHANGED <<aspect_update_pending, fb_width, fb_height, effect, driver_ident, platform_format,
                   converted_with, setting_effect, last_width, last_height,
                   force_redraw, pool, menuIdle>>

\* The user picks another particle effect in the settings.
SetParticleEffect ==
    /\ \E e \in MenuEffects \ {setting_effect} : setting_effect' = e
    /\ ran' = <<>>
    /\ handler' = "settings"
    /\ aspect_commands' = 0
    /\ UNCHANGED <<aspect_update_pending, fb_width, fb_height, effect, rgui_alive, driver_ident,
                   platform_format, converted_with, last_width, last_height,
                   force_redraw, pool, menuIdle>>

\* rgui_frame; recolour: the theme changed (prepare_rgui_colors); d: the size
\* rgui_set_aspect_ratio leaves; other: another setting forces a redraw;
\* config: the aspect ratio, its lock or the window changed so that
\* rgui_set_video_config is reached, always with delay_update set
RguiFrame ==
    /\ rgui_alive
    /\ \E recolour \in BOOLEAN, other \in BOOLEAN, config \in BOOLEAN,
          d \in MenuDims \cup {<<fb_width, fb_height>>} :
          LET reseeds == frame_reseeds(setting_effect, effect)
          IN  /\ effect' = setting_effect
              /\ pool' = IF reseeds
                         THEN Seed(setting_effect, fb_width, fb_height, "rgui_frame")
                         ELSE pool
              /\ ran' = IF reseeds THEN <<InitEntry(setting_effect, fb_width, fb_height)>>
                        ELSE <<>>
              /\ converted_with' = IF recolour THEN converted_with \cup {platform_format}
                                   ELSE converted_with
              /\ fb_width' = d[1]
              /\ fb_height' = d[2]
              /\ force_redraw' = (force_redraw \/ setting_effect # effect
                                    \/ setting_effect # "NONE" \/ recolour \/ other
                                    \/ d # <<fb_width, fb_height>>)
              /\ LET o == rgui_set_video_config(aspect_update_pending, config, TRUE)
                 IN  aspect_update_pending' = o.pending /\ aspect_commands' = o.commands
    /\ handler' = "rgui_frame"
    /\ UNCHANGED <<rgui_alive, driver_ident, platform_format, setting_effect,
                   last_width, last_height, menuIdle>>

\* rgui_render, with a frame buffer; proceed is FALSE when it returns before
\* drawing, which it may only while force_redraw is not set
RguiRender ==
    /\ rgui_alive
    /\ LET o == render_applies_pending(aspect_update_pending)
       IN  aspect_update_pending' = o.pending /\ aspect_commands' = o.commands
    /\ \E proceed \in BOOLEAN :
          /\ force_redraw => proceed
          /\ IF ~proceed
             THEN /\ ran' = <<>>
                  /\ UNCHANGED <<last_width, last_height, force_redraw, pool>>
             ELSE LET fb_size_changed == last_width # fb_width \/ last_height # fb_height
                      reseeds == render_reseeds(fb_size_changed, effect)
                      seed == IF reseeds
                              THEN Seed(effect, fb_width, fb_height, "rgui_render")
                              ELSE pool
                  IN  /\ last_width' = fb_width
                      /\ last_height' = fb_height
                      /\ force_redraw' = FALSE
                      /\ pool' = seed
                      /\ ran' = (IF reseeds THEN <<InitEntry(effect, fb_width, fb_height)>>
                                 ELSE <<>>)
                                \o (IF render_steps(effect)
                                    THEN <<RenderEntry(effect, fb_width, fb_height,
                                                       fb_size_changed, seed)>>
                                    ELSE <<>>)
    /\ handler' = "rgui_render"
    /\ UNCHANGED <<fb_width, fb_height, effect, rgui_alive, driver_ident,
                   platform_format, converted_with, setting_effect, menuIdle>>

\* process_wallpaper, process_thumbnail: a loaded image is converted
ProcessImage ==
    /\ rgui_alive
    /\ converted_with' = converted_with \cup {platform_format}
    /\ force_redraw' = TRUE
    /\ ran' = <<>>
    /\ handler' = "process_image"
    /\ aspect_commands' = 0
    /\ UNCHANGED <<aspect_update_pending, fb_width, fb_height, effect, rgui_alive, driver_ident,
                   platform_format, setting_effect, last_width, last_height,
                   pool, menuIdle>>

\* rgui_toggle, rgui_populate_entries: the video config is set at once when
\* the aspect ratio is locked and the menu or content settings are restored
RguiToggle ==
    /\ rgui_alive
    /\ \E config \in BOOLEAN :
          LET o == rgui_set_video_config(aspect_update_pending, config, FALSE)
          IN  aspect_update_pending' = o.pending /\ aspect_commands' = o.commands
    /\ ran' = <<>>
    /\ handler' = "rgui_toggle"
    /\ UNCHANGED <<fb_width, fb_height, effect, rgui_alive, driver_ident,
                   platform_format, converted_with, setting_effect, last_width,
                   last_height, force_redraw, pool, menuIdle>>

NextMenu ==
    RguiInit \/ RguiFree \/ SetParticleEffect \/ RguiFrame \/ RguiRender \/ ProcessImage
        \/ RguiToggle

SpecMenu == InitMenu /\ [][NextMenu]_vars

\* C14: rgui_set_pixel_format_function maps "ps2" to abgr1555, "gx" to rgb5a3,
\* "psp1" to abgr4444, "d3d10"/"d3d11"/"d3d12" to bgra4444 and every other,
\* empty or missing identifier to rgba4444; the converter selected by rgui_init
\* is held by rgui_frame, rgui_render, prepare_rgui_colors and the image
\* loaders, so every colour converted since that rgui_init used that converter.
C14_ConverterHeld ==
    LET selected ==
            IF ~driver_ident.present THEN "rgba4444"
            ELSE CASE driver_ident.name = "ps2"   -> "abgr1555"
                   [] driver_ident.name = "gx"    -> "rgb5a3"
                   [] driver_ident.name = "psp1"  -> "abgr4444"
                   [] driver_ident.name = "d3d10" -> "bgra4444"
                   [] driver_ident.name = "d3d11" -> "bgra4444"
                   [] driver_ident.name = "d3d12" -> "bgra4444"
                   [] OTHER                       -> "rgba4444"
    IN  /\ platform_format = selected
        /\ converted_with \subseteq {selected}

C14_Witness ==
    /\ rgui_alive
    /\ driver_ident = Ident("d3d12")
    /\ platform_format = "bgra4444"
    /\ handler = "process_image"
    /\ converted_with = {"bgra4444"}

C16_ReseedOnEffectChange ==
    /\ (rgui_alive /\ handler \in {"rgui_init", "rgui_frame"}) => effect = setting_effect
    /\ (rgui_alive /\ effect # "NONE") => pool.eff = effect
    /\ \A i \in DOMAIN ran :
          (ran[i].fn = "rgui_render_particle_effect") => ran[i].pool.eff = ran[i].eff

C16_Witness ==
    /\ rgui_alive
    /\ handler = "rgui_render"
    /\ effect = "RAIN"
    /\ pool = Seed("RAIN", fb_width, fb_height, "rgui_frame")
    /\ Len(ran) = 1
    /\ ran[1].fn = "rgui_render_particle_effect"

\* C17: a render that sees a frame buffer size other than (last_width,
\* last_height) while an effect is active runs rgui_init_particle_effect with
\* the new size before rgui_render_particle_effect, and no
\* rgui_render_particle_effect steps a pool seeded for another size.
C17_ReseedOnResize ==
    \A i \in DOMAIN ran :
       (ran[i].fn = "rgui_render_particle_effect")
       => /\ ran[i].fb_size_changed
             => (i = 2 /\ ran[1] = InitEntry(ran[i].eff, ran[i].w, ran[i].h))
          /\ ran[i].pool.w = ran[i].w
          /\ ran[i].pool.h = ran[i].h

\* The first half of C17 alone
RenderReseedsFirst ==
    \A i \in DOMAIN ran :
       (ran[i].fn = "rgui_render_particle_effect" /\ ran[i].fb_size_changed)
       => (i = 2 /\ ran[1] = InitEntry(ran[i].eff, ran[i].w, ran[i].h))

(***************************************************************************)
(* The netplay NAT traversal task.  The handler is followed statement by   *)
(* statement (task.hpc).  The task queue is not part of these sources: it  *)
(* calls the handler of a queued task, calls it again while the task is    *)
(* not finished, and once it finds the task finished it calls the          *)
(* callback and releases the task.                                         *)
(***************************************************************************)
MaxPushes == 2

Ports == {0, 1024, 55435, 65535}

\* Mutant: the task is marked finished before the NAT library is used.
handler_next_finish_first(hpc, ok) ==
    CASE hpc = "natt_init"          -> "task_set_finished"
      [] hpc = "task_set_finished"  -> "natt_new"
      [] hpc = "natt_new"           -> IF ok THEN "natt_open_port_any" ELSE "task_set_progress"
      [] hpc = "natt_open_port_any" -> "task_set_progress"
      [] OTHER                      -> "returned"

\* Mutant: the port mapping is requested whatever natt_new returned.
handler_next_opens_always(hpc, ok) ==
    CASE hpc = "natt_init"          -> "natt_new"
      [] hpc = "natt_new"           -> "natt_open_port_any"
      [] hpc = "natt_open_port_any" -> "task_set_progress"
      [] hpc = "task_set_progress"  -> "task_set_finished"
      [] OTHER                      -> "returned"

\* task_netplay_nat_traversal_handler: the statement after hpc; ok is what the
\* call at hpc returned
handler_next(hpc, ok) ==
    CASE hpc = "natt_init"          -> "natt_new"
      [] hpc = "natt_new"           -> IF ok THEN "natt_open_port_any" ELSE "task_set_progress"
      [] hpc = "natt_open_port_any" -> "task_set_progress"
      [] hpc = "task_set_progress"  -> "task_set_finished"
      [] OTHER                      -> "returned"

InitNat ==
    /\ IdleNat
    /\ IdleThumb
    /\ IdleMenu
    /\ IdleRect
    /\ IdleConv
    /\ IdlePart
    /\ fb_width = 0
    /\ fb_height = 0

natIdle == <<fb_width, fb_height, rectVars, convVars, partVars, menuVars, thumbVars, bufVars>>

\* TASK_QUEUE_CTL_PUSH: the queue takes the task it is given.
queue_push(t) == [t EXCEPT !.hpc = "queued"]

\* Mutant: the task is not freed when the task data cannot be allocated.
push_outcome_leaks_task(task_ok, ntsd_ok) ==
    CASE ~task_ok -> [ret |-> FALSE, block |-> "none"]
      [] ~ntsd_ok -> [ret |-> FALSE, block |-> "live"]
      [] OTHER    -> [ret |-> TRUE, block |-> "live"]

\* task_push_netplay_nat_traversal: what it returns and what becomes of the
\* task block, task_ok and ntsd_ok being the results of the two calloc calls
push_outcome(task_ok, ntsd_ok) ==
    CASE ~task_ok -> [ret |-> FALSE, block |-> "none"]
      [] ~ntsd_ok -> [ret |-> FALSE, block |-> "freed"]
      [] OTHER    -> [ret |-> TRUE, block |-> "live"]

\* task_push_netplay_nat_traversal, called when no earlier task is pending
TaskPush ==
    /\ task.hpc = "none" \/ task.gathered
    /\ task.seq < MaxPushes
    /\ \E port \in Ports, task_ok \in BOOLEAN, ntsd_ok \in BOOLEAN :
          LET o == push_outcome(task_ok, ntsd_ok)
          IN  /\ push_ret' = [ret |-> IF o.ret THEN "true" ELSE "false", port |-> port]
              /\ IF o.ret
                 THEN /\ task' = queue_push([hpc |-> "allocated", seq |-> task.seq + 1,
                                             type |-> "TASK_TYPE_BLOCKING", progress |-> 0,
                                             finished |-> FALSE, gathered |-> FALSE,
                                             handler_calls |-> 0, natt_calls |-> <<>>,
                                             block |-> o.block])
                      /\ ntsd' = [state |-> "live", nat_traversal_state |-> "caller",
                                  port |-> port]
                      /\ nat_traversal_state' = "unset"
                 ELSE /\ task' = [NoTask EXCEPT !.seq = task.seq, !.block = o.block]
                      /\ UNCHANGED <<ntsd, nat_traversal_state>>
    /\ UNCHANGED <<notifications, natIdle>>

\* The queue calls the handler of a queued task, and again while the task has
\* returned without being finished.
queue_calls_handler(t) ==
    t.hpc = "queued" \/ (t.hpc = "returned" /\ ~t.finished /\ ~t.gathered)

\* The queue hands a task to its callback once, when it finds it finished.
queue_gathers(t) == t.hpc # "none" /\ t.finished /\ ~t.gathered

\* The queue calls task->handler
HandlerCall ==
    /\ queue_calls_handler(task)
    /\ task' = [task EXCEPT !.hpc = "natt_init", !.handler_calls = @ + 1]
    /\ UNCHANGED <<ntsd, nat_traversal_state, notifications, push_ret, natIdle>>

\* One statement of task_netplay_nat_traversal_handler
HandlerStep ==
    /\ task.hpc \in {"natt_init", "natt_new", "natt_open_port_any",
                     "task_set_progress", "task_set_finished"}
    /\ \E ok \in BOOLEAN :
          /\ (task.hpc \in {"natt_init", "task_set_progress", "task_set_finished"}) => ok
          /\ task' = [task EXCEPT
                        !.hpc = handler_next(task.hpc, ok),
                        !.progress = IF task.hpc = "task_set_progress" THEN 100 ELSE @,
                        !.finished = IF task.hpc = "task_set_finished" THEN TRUE ELSE @,
                        !.natt_calls =
                            CASE task.hpc = "natt_init" -> Append(@, <<"natt_init">>)
                              [] task.hpc = "natt_new" ->
                                    Append(@, <<"natt_new", ntsd.nat_traversal_state>>)
                              [] task.hpc = "natt_open_port_any" ->
                                    Append(@, <<"natt_open_port_any", ntsd.nat_traversal_state,
                                                ntsd.port, "SOCKET_PROTOCOL_TCP">>)
                              [] OTHER -> @]
          /\ nat_traversal_state' =
                CASE task.hpc = "natt_new" -> IF ok THEN "new" ELSE "new_failed"
                  [] task.hpc = "natt_open_port_any" -> IF ok THEN "port_open" ELSE "port_failed"
                  [] OTHER -> nat_traversal_state
    /\ UNCHANGED <<ntsd, notifications, push_ret, natIdle>>

\* The queue finds the task finished and calls netplay_nat_traversal_callback,
\* which frees the task data and notifies netplay; the queue then drops the task
TaskCallback ==
    /\ queue_gathers(task)
    /\ task' = [task EXCEPT !.gathered = TRUE, !.block = "freed"]
    /\ ntsd' = [ntsd EXCEPT !.state = IF @ = "live" THEN "freed" ELSE "freed_twice"]
    /\ notifications' = notifications + 1
    /\ UNCHANGED <<nat_traversal_state, push_ret, natIdle>>

RunTask == HandlerCall \/ HandlerStep \/ TaskCallback

NextNat == TaskPush \/ RunTask

SpecNat == InitNat /\ [][NextNat]_vars

\* The queue keeps running the tasks it holds.
FairSpecNat == SpecNat /\ WF_vars(RunTask)

\* C18: a pushed task is run to its end: the handler is called once, sets
\* progress 100 and finished whether natt_new and the port mapping succeed or
\* not, and only then the callback frees the task data and sends
\* FINISHED_NAT_TRAVERSAL, once per task, after the last write to the caller's
\* natt_status, also when the mapping failed.
C18_TaskRunsOnce ==
    /\ [](task.hpc # "none" =>
            /\ task.handler_calls <= 1
            /\ notifications = IF task.gathered THEN task.seq ELSE task.seq - 1
            /\ task.gathered =>
                  /\ task.hpc = "returned"
                  /\ task.handler_calls = 1
                  /\ task.progress = 100
                  /\ task.finished
                  /\ ntsd.state = "freed"
                  /\ nat_traversal_state \in {"new_failed", "port_open", "port_failed"})
    /\ (task.hpc = "queued") ~> (task.hpc # "none" /\ task.gathered)

C18_Witness ==
    /\ task.hpc = "returned"
    /\ task.gathered
    /\ task.seq = 2
    /\ notifications = 2
    /\ nat_traversal_state = "port_failed"
    /\ ntsd.state = "freed"

\* C19: under Snow and SnowAlt every update step leaves the stored position
\* inside the buffer, 0 <= a < fb_width and 0 <= b < fb_height.
C19_SnowWrapsToroidally ==
    (effect \in {"SNOW", "SNOW_ALT"} /\ phase = "stepped") =>
        /\ 0 <= particle.a /\ particle.a < fb_width * PosScale
        /\ 0 <= particle.b /\ particle.b < fb_height * PosScale

\* What the update step does keep: the position stays below the buffer size,
\* and a negative position is one whose particle still touches the buffer.
SnowPositionRange ==
    (effect \in {"SNOW", "SNOW_ALT"} /\ phase = "stepped") =>
        /\ particle.a < fb_width * PosScale
        /\ particle.b < fb_height * PosScale
        /\ particle.a > -(snow_size(effect, slot) * PosScale)
        /\ particle.b > -(snow_size(effect, slot) * PosScale)

\* The size claimed for slot i under SnowAlt: 2 when bit 1 of i is clear, 3 when
\* the low three bits are all set, 1 otherwise.
ClaimedSize(i) ==
    IF (i \div 2) % 2 = 0 THEN 2
    ELSE IF i % 8 = 7 THEN 3
    ELSE 1

SlotsOfSize(eff, k) == {i \in 0..(RGUI_NUM_PARTICLES - 1) : snow_size(eff, i) = k}

\* C20: every particle drawn under Snow is 1x1; under SnowAlt the size drawn is
\* a function of the pool index only, 2 when bit 1 of the index is clear, 3 when
\* its low three bits are all set, 1 otherwise, the same on every frame, which
\* over the 256 slots gives 96 particles of size 1, 128 of size 2, 32 of size 3.
C20_SnowSizes ==
    (effect \in {"SNOW", "SNOW_ALT"} /\ phase = "stepped") =>
        /\ effect = "SNOW" => particle_size = 1
        /\ effect = "SNOW_ALT" => particle_size = ClaimedSize(slot)
        /\ Cardinality(SlotsOfSize("SNOW", 1)) = 256
        /\ Cardinality(SlotsOfSize(effect, 1)) = (IF effect = "SNOW" THEN 256 ELSE 96)
        /\ Cardinality(SlotsOfSize(effect, 2)) = (IF effect = "SNOW" THEN 0 ELSE 128)
        /\ Cardinality(SlotsOfSize(effect, 3)) = (IF effect = "SNOW" THEN 0 ELSE 32)

C20_Witness ==
    /\ effect = "SNOW_ALT"
    /\ phase = "stepped"
    /\ slot = 7
    /\ particle_size = 3
    /\ life >= 2

\* C21: under Vortex the size drawn grows as the radius shrinks: a particle
\* drawn again at a smaller radius is drawn at least as large as before, the
\* largest size being drawn at the centre, and the size is never more than
\* 1 + 3.5 (rounded) texels.
C21_VortexSizeGrowsInward ==
    /\ [][(effect = "VORTEX" /\ phase = "stepped" /\ phase' = "stepped" /\ ~respawned)
             => particle_size' >= particle_size]_vars
    /\ [][(effect = "VORTEX" /\ phase' = "stepped") => particle_size' <= 5]_vars

\* What the code does: the size drawn is 1 + round(3.5 * a / max_radius), which
\* shrinks with the radius, from 5 at the rim to 1 at the centre.
VortexSizeShrinksInward ==
    /\ [][(effect = "VORTEX" /\ phase = "stepped" /\ phase' = "stepped" /\ ~respawned)
             => particle_size' <= particle_size]_vars
    /\ [][(effect = "VORTEX" /\ phase' = "stepped") =>
             /\ particle_size' \in 1..5
             /\ (particle.a < PosScale => particle_size' = 1)]_vars

\* C22: under Vortex with a positive speed factor the radius strictly decreases
\* on every step that does not respawn, by more the smaller the radius is; a
\* step that takes the radius below 0 respawns the particle in that step with
\* a radius in [1, 1 + max_radius] and positive radial and rotational speeds,
\* so no stored radius is negative and every particle is respawned again and
\* again.
C22_VortexSpiralsIn ==
    /\ [][(effect = "VORTEX" /\ phase' = "stepped" /\ ~respawned') =>
             /\ particle'.a < particle.a
             /\ particle'.a = particle.a - r_speed'
             /\ (phase = "stepped" /\ ~respawned /\ particle.a > 0
                   /\ particle.a < fb_height * PosScale) => r_speed' > r_speed]_vars
    /\ [][(effect = "VORTEX" /\ phase' = "stepped" /\ respawned') =>
             /\ particle.a - r_speed' < 0
             /\ particle'.a >= PosScale
             /\ particle'.a <= PosScale + vortex_max_radius(fb_width, fb_height)
             /\ particle'.c > 0
             /\ particle'.d > 0]_vars
    /\ []((effect = "VORTEX" /\ phase # "constructed") => particle.a >= 0)
    /\ []<>(effect = "VORTEX" /\ phase = "stepped" /\ respawned)

C22_Witness ==
    /\ effect = "VORTEX"
    /\ phase = "stepped"
    /\ respawned
    /\ life >= LifeCap
    /\ r_speed > 0
    /\ particle.a = PosScale + vortex_max_radius(fb_width, fb_height)

\* The per-tick deltas of a render step are those of the speed factor F: the
\* snow position, the rain fall, the vortex radial and angular speed and the
\* starfield depth.
ScaledBy(F) ==
    /\ effect = "SNOW" =>
          /\ particle'.a \in {Fmod(particle.a + F * particle'.c, fb_width * PosScale),
                              Fmod(particle.a + F * particle'.c, fb_width * PosScale)
                                 + fb_width * PosScale}
          /\ particle'.b \in {Fmod(particle.b + F * particle'.d, fb_height * PosScale),
                              Fmod(particle.b + F * particle'.d, fb_height * PosScale)
                                 + fb_height * PosScale}
    /\ (effect = "RAIN" /\ touched' /\ ~respawned') =>
          particle'.b - particle.b = particle.d * F
    /\ effect = "VORTEX" =>
          /\ r_speed' = vortex_r_speed(particle.a, particle.c, fb_height, F)
          /\ ~respawned' =>
                particle'.b - particle.b
                   = vortex_theta_speed(particle.a, particle.d, fb_height, F)
    /\ (effect = "STARFIELD" /\ ~respawned') =>
          particle.c - particle'.c = particle.d * F

\* C23: for every speed setting and every frame time, all per-tick deltas of a
\* step are scaled by the one factor speed setting * (frame time / nominal
\* frame time).
C23_SpeedFactorAnySetting ==
    [][phase' = "stepped" => ScaledBy((speed * delta_time') \div SpeedUnit)]_vars

\* C23 as amended: the factor is speed setting * (frame time / nominal frame
\* time) for a speed setting above 0.0001; a setting of 0.0001 or less is
\* replaced by 1.0. One factor scales the deltas of every effect.
C23_SpeedFactor ==
    [][phase' = "stepped" =>
          ScaledBy(((IF speed > 1 THEN speed ELSE SpeedUnit) * delta_time') \div SpeedUnit)]_vars

C23_Witness ==
    /\ effect = "RAIN"
    /\ speed = 3 * SpeedUnit
    /\ delta_time = SpeedUnit \div 2
    /\ phase = "stepped"
    /\ touched
    /\ ~respawned
    /\ life >= 2

\* C24: task_push_netplay_nat_traversal returns true exactly when one blocking
\* task carrying the caller's natt_status and port was pushed; when either
\* allocation fails it returns false, nothing is queued, no allocation of the
\* call is left behind and no notification results from the call.
C24_PushResult ==
    /\ [](push_ret.ret = "true" =>
            /\ task.hpc # "none"
            /\ task.type = "TASK_TYPE_BLOCKING"
            /\ ntsd.nat_traversal_state = "caller"
            /\ ntsd.port = push_ret.port)
    /\ [](task.hpc # "none" => push_ret.ret = "true")
    /\ [](push_ret.ret = "false" =>
            /\ task.hpc = "none"
            /\ task.block # "live"
            /\ ntsd.state # "live"
            /\ notifications = task.seq)
    /\ [][(task'.hpc = "queued" /\ task.hpc # "queued") =>
             /\ task'.seq = task.seq + 1
             /\ push_ret'.ret = "true"
             /\ notifications' = notifications]_vars
    /\ [][(task'.seq # task.seq) => (task'.hpc = "queued" /\ task.hpc # "queued")]_vars

C24_Witness ==
    /\ push_ret.ret = "false"
    /\ task.hpc = "none"
    /\ task.block = "freed"
    /\ task.seq = 1
    /\ notifications = 1

\* C25: the handler calls natt_init, then natt_new on the caller's natt_status,
\* then natt_open_port_any; the port mapping is requested only after natt_new
\* succeeded, for the port given to the push and for TCP, at most once per
\* task; when natt_new fails no mapping is requested and the task still
\* finishes.
C25_HandlerOrder ==
    /\ [](task.hpc # "none" =>
            /\ Len(task.natt_calls) <= 3
            /\ Len(task.natt_calls) >= 1 => task.natt_calls[1] = <<"natt_init">>
            /\ Len(task.natt_calls) >= 2 => task.natt_calls[2] = <<"natt_new", "caller">>
            /\ Len(task.natt_calls) = 3 =>
                  /\ task.natt_calls[3] = <<"natt_open_port_any", "caller", push_ret.port,
                                            "SOCKET_PROTOCOL_TCP">>
                  /\ nat_traversal_state \in {"port_open", "port_failed"}
            /\ nat_traversal_state = "new_failed" => Len(task.natt_calls) = 2)
    /\ [][(Len(task'.natt_calls) = 3 /\ Len(task.natt_calls) # 3) =>
             /\ Len(task.natt_calls) = 2
             /\ nat_traversal_state = "new"]_vars
    /\ (task.hpc # "none" /\ nat_traversal_state = "new_failed")
          ~> (task.finished /\ task.gathered)

C25_Witness ==
    /\ task.gathered
    /\ task.finished
    /\ nat_traversal_state = "new_failed"
    /\ Len(task.natt_calls) = 2
    /\ push_ret.port = 55435

(***************************************************************************)
(* Thumbnails: request_thumbnail, process_thumbnail, rgui_load_image.      *)
(***************************************************************************)
MaxLoads == 2

\* The thumbnail files the selected playlist entry can name
ThumbPaths == {"a.png", "b.png"}

\* What one call of request_thumbnail is given: the path, whether
\* path_is_valid() finds the file, whether task_push_image_load() succeeds
\* (asked only for a file that exists).
\* NoRequest: gfx_thumbnail_get_path() returned false.
NoRequest == [path |-> "", exists |-> FALSE, push_ok |-> FALSE]
Requests == [path : ThumbPaths, exists : BOOLEAN, push_ok : {TRUE}]
                \cup [path : ThumbPaths, exists : {TRUE}, push_ok : {FALSE}]
LeftRequests == {[path |-> "a.png", exists |-> TRUE, push_ok |-> TRUE]}

\* task_push_image_load(): the load joins the tasks in flight; the queue hands
\* the results to rgui_load_image in the order of the requests.
push_image_load(loads, path) == Append(loads, path)

\* Mutant: the counter is not incremented after a successful push.
request_thumbnail_uncounted(thumbnail, queue_size, req) ==
    IF req.path # "" /\ thumbnail.path # "" /\ thumbnail.path = req.path
    THEN [thumbnail |-> thumbnail, queue_size |-> queue_size, pushed |-> FALSE, ret |-> TRUE]
    ELSE LET reset == [thumbnail EXCEPT !.is_valid = FALSE, !.path = req.path]
         IN IF req.path # "" /\ req.exists /\ req.push_ok
            THEN [thumbnail |-> reset, queue_size |-> queue_size, pushed |-> TRUE, ret |-> TRUE]
            ELSE [thumbnail |-> reset, queue_size |-> queue_size, pushed |-> FALSE, ret |-> FALSE]

\* request_thumbnail(): nothing when the path is the one recorded; otherwise
\* the thumbnail is reset, the path recorded, and a load pushed and counted when
\* the file exists and the push succeeds.  The buffer keeps its pixels.
request_thumbnail(thumbnail, queue_size, req) ==
    IF req.path # "" /\ thumbnail.path # "" /\ thumbnail.path = req.path
    THEN [thumbnail |-> thumbnail, queue_size |-> queue_size, pushed |-> FALSE, ret |-> TRUE]
    ELSE LET reset == [thumbnail EXCEPT !.is_valid = FALSE, !.path = req.path]
         IN IF req.path # "" /\ req.exists /\ req.push_ok
            THEN [thumbnail |-> reset, queue_size |-> queue_size + 1, pushed |-> TRUE, ret |-> TRUE]
            ELSE [thumbnail |-> reset, queue_size |-> queue_size, pushed |-> FALSE, ret |-> FALSE]

\* Mutant: every usable image is converted, whatever the backlog.
process_thumbnail_every_image(thumbnail, queue_size, image) ==
    LET q == IF queue_size > 0 THEN queue_size - 1 ELSE queue_size
    IN IF ~image.usable
       THEN [thumbnail |-> thumbnail, queue_size |-> q, converted |-> FALSE]
       ELSE [thumbnail |-> [thumbnail EXCEPT !.is_valid = TRUE, !.image = image.path],
             queue_size |-> q, converted |-> TRUE]

\* process_thumbnail(): image = [path, usable]; usable is FALSE when the sanity
\* check or downscale_thumbnail() fails.
process_thumbnail(thumbnail, queue_size, image) ==
    LET q == IF queue_size > 0 THEN queue_size - 1 ELSE queue_size
    IN IF q > 0 \/ ~image.usable
       THEN [thumbnail |-> thumbnail, queue_size |-> q, converted |-> FALSE]
       ELSE [thumbnail |-> [thumbnail EXCEPT !.is_valid = TRUE, !.image = image.path],
             queue_size |-> q, converted |-> TRUE]

thumbIdle == <<fb_width, fb_height, rectVars, convVars, partVars, natVars, bufVars,
               rgui_alive, driver_ident, platform_format, converted_with,
               setting_effect, last_width, last_height, pool, ran, handler,
               aspect_update_pending, aspect_commands>>

InitThumb ==
    /\ fb_width = 0 /\ fb_height = 0
    /\ IdleRect /\ IdleConv /\ IdlePart /\ IdleMenu /\ IdleNat
    /\ IdleThumb

\* rgui_load_current_thumbnails() as rgui_scan_selected_entry_thumbnail() calls
\* it: only while fullscreen or inline thumbnails are shown; the left thumbnail
\* only outside the fullscreen view.  show_fs is the value after a toggle.
load_current_thumbnails(show_fs, thumbs, right, left) ==
    LET target == IF show_fs THEN "fs_thumbnail" ELSE "mini_thumbnail"
        r == IF right = NoRequest
             THEN [thumbnail |-> thumbs[target], queue_size |-> thumbnail_queue_size,
                   pushed |-> FALSE, ret |-> FALSE]
             ELSE request_thumbnail(thumbs[target], thumbnail_queue_size, right)
        l == IF show_fs \/ left = NoRequest
             THEN [thumbnail |-> thumbs["mini_left_thumbnail"],
                   queue_size |-> left_thumbnail_queue_size, pushed |-> FALSE, ret |-> FALSE]
             ELSE request_thumbnail(thumbs["mini_left_thumbnail"], left_thumbnail_queue_size, left)
    IN IF ~(show_fs \/ menu_rgui_inline_thumbnails) \/ (right = NoRequest /\ left = NoRequest)
       THEN /\ thumbnails' = thumbs
            /\ UNCHANGED <<thumbnail_queue_size, left_thumbnail_queue_size, image_loads,
                           force_redraw>>
       ELSE /\ thumbnails' = [thumbs EXCEPT ![target] = r.thumbnail,
                                            !["mini_left_thumbnail"] = l.thumbnail]
            /\ thumbnail_queue_size' = r.queue_size
            /\ left_thumbnail_queue_size' = l.queue_size
            /\ image_loads' =
                 [image_loads EXCEPT
                    !["THUMBNAIL"] = IF r.pushed THEN push_image_load(@, right.path) ELSE @,
                    !["LEFT_THUMBNAIL"] = IF l.pushed THEN push_image_load(@, left.path) ELSE @]
            /\ force_redraw' = TRUE

HasRoom == \A t \in DOMAIN image_loads : Len(image_loads[t]) < MaxLoads

\* rgui_navigation_set(): the selection moved, its thumbnails are requested
ScanSelectedEntry ==
    /\ HasRoom
    /\ \E right \in Requests \cup {NoRequest}, left \in LeftRequests \cup {NoRequest} :
          load_current_thumbnails(show_fs_thumbnail, thumbnails, right, left)
    /\ UNCHANGED <<show_fs_thumbnail, menu_rgui_inline_thumbnails, last_delivery, thumbIdle>>

\* rgui_toggle_fs_thumbnail()
ToggleFsThumbnail ==
    /\ HasRoom
    /\ show_fs_thumbnail' = ~show_fs_thumbnail
    /\ LET inactive == IF show_fs_thumbnail' THEN "mini_thumbnail" ELSE "fs_thumbnail"
           thumbs == IF menu_rgui_inline_thumbnails
                     THEN [thumbnails EXCEPT ![inactive] = [@ EXCEPT !.is_valid = FALSE, !.path = ""]]
                     ELSE thumbnails
       IN \E right \in Requests \cup {NoRequest}, left \in LeftRequests \cup {NoRequest} :
             load_current_thumbnails(show_fs_thumbnail', thumbs, right, left)
    /\ UNCHANGED <<menu_rgui_inline_thumbnails, last_delivery, thumbIdle>>

\* The user changes the inline-thumbnails setting
SetInlineThumbnails ==
    /\ menu_rgui_inline_thumbnails' = ~menu_rgui_inline_thumbnails
    /\ UNCHANGED <<thumbnails, thumbnail_queue_size, left_thumbnail_queue_size,
                   show_fs_thumbnail, image_loads, last_delivery, force_redraw, thumbIdle>>

\* Mutant: a broken image leaves the counters alone.
rgui_load_image_broken_uncounted(type, data, image) ==
    LET left == type = "LEFT_THUMBNAIL"
        name == IF left THEN "mini_left_thumbnail"
                ELSE IF show_fs_thumbnail THEN "fs_thumbnail" ELSE "mini_thumbnail"
        size == IF left THEN left_thumbnail_queue_size ELSE thumbnail_queue_size
    IN IF ~data
       THEN [name |-> name, thumbnail |-> thumbnails[name], queue_size |-> size,
             converted |-> FALSE]
       ELSE [name |-> name] @@ process_thumbnail(thumbnails[name], size, image)

\* rgui_load_image(): data is FALSE for a broken image (no data).  The result
\* names the thumbnail the image is for, its new value and the new counter of
\* the queue of this image type.
rgui_load_image(type, data, image) ==
    LET left == type = "LEFT_THUMBNAIL"
        name == IF left THEN "mini_left_thumbnail"
                ELSE IF show_fs_thumbnail THEN "fs_thumbnail" ELSE "mini_thumbnail"
        size == IF left THEN left_thumbnail_queue_size ELSE thumbnail_queue_size
        dec  == IF size > 0 THEN size - 1 ELSE size
    IN IF ~data \/ (~left /\ ~show_fs_thumbnail /\ ~menu_rgui_inline_thumbnails)
       THEN [name |-> name, thumbnail |-> thumbnails[name], queue_size |-> dec,
             converted |-> FALSE]
       ELSE [name |-> name] @@ process_thumbnail(thumbnails[name], size, image)

\* The task queue delivers the oldest load of one image type
DeliverImage ==
    \E type \in DOMAIN image_loads, kind \in {"image", "unusable", "none"} :
       /\ image_loads[type] # <<>>
       /\ LET data == kind # "none"
              usable == kind = "image"
              image == [path |-> Head(image_loads[type]), usable |-> usable]
              o == rgui_load_image(type, data, image)
          IN /\ thumbnails' = [thumbnails EXCEPT ![o.name] = o.thumbnail]
             /\ IF type = "LEFT_THUMBNAIL"
                THEN /\ left_thumbnail_queue_size' = o.queue_size
                     /\ UNCHANGED thumbnail_queue_size
                ELSE /\ thumbnail_queue_size' = o.queue_size
                     /\ UNCHANGED left_thumbnail_queue_size
             /\ force_redraw' = (force_redraw \/ o.converted)
             /\ last_delivery' = kind
       /\ image_loads' = [image_loads EXCEPT ![type] = Tail(@)]
       /\ UNCHANGED <<show_fs_thumbnail, menu_rgui_inline_thumbnails, thumbIdle>>

NextThumb == ScanSelectedEntry \/ ToggleFsThumbnail \/ SetInlineThumbnails \/ DeliverImage

SpecThumb == InitThumb /\ [][NextThumb]_vars

\* C26: only the most recently requested image is processed, so a thumbnail
\* that is valid shows the image of the last request, the one whose path the
\* thumbnail records.
C26_ValidShowsRecordedPath ==
    \A t \in DOMAIN thumbnails :
        thumbnails[t].is_valid => thumbnails[t].image = thumbnails[t].path

\* The part of C26 the code keeps: an image delivered while the counter stays
\* above 0 is discarded, the thumbnails stay as they were.
ThumbnailBacklogDiscarded ==
    [][(Len(image_loads'["THUMBNAIL"]) < Len(image_loads["THUMBNAIL"])
          /\ thumbnail_queue_size' > 0) => thumbnails' = thumbnails]_vars

\* C27: each queue counter equals the number of image loads pushed for its
\* queue whose result was not yet delivered; it is 0 once all are delivered.
C27_CountersMatchLoads ==
    /\ thumbnail_queue_size = Len(image_loads["THUMBNAIL"])
    /\ left_thumbnail_queue_size = Len(image_loads["LEFT_THUMBNAIL"])

\* A broken image arrived while neither view was enabled and brought the
\* counter of its queue back to 0; a left image is still in flight.
C27_Witness ==
    /\ last_delivery = "none" /\ thumbnail_queue_size = 0 /\ image_loads["THUMBNAIL"] = <<>>
    /\ ~show_fs_thumbnail /\ ~menu_rgui_inline_thumbnails
    /\ left_thumbnail_queue_size > 0

\* C28: rgui_frame never issues CMD_EVENT_VIDEO_SET_ASPECT_RATIO, a change it
\* makes only sets aspect_update_pending; rgui_render issues the command once
\* when, and only when, an update is pending, and clears the flag, whether or
\* not it goes on to redraw.
C28_AspectUpdateDeferred ==
    [][/\ handler' = "rgui_frame" =>
            /\ aspect_commands' = 0
            /\ aspect_update_pending => aspect_update_pending'
       /\ handler' = "rgui_render" =>
            /\ aspect_commands' = (IF aspect_update_pending THEN 1 ELSE 0)
            /\ ~aspect_update_pending']_vars

\* rgui_render applied an update that was pending, no particle function ran
\* and no redraw is forced.
C28_Witness ==
    /\ handler = "rgui_render" /\ aspect_commands = 1 /\ ~aspect_update_pending
    /\ ran = <<>> /\ ~force_redraw

(***************************************************************************)
(* Starfield under the menu handlers: rgui_frame seeds and resizes,        *)
(* rgui_render reseeds and steps.                                          *)
(***************************************************************************)
StarMenuDims == {<<2 * PartFbW, PartFbH + 1>>, <<3 * PartFbW, PartFbH + 1>>}

starMenuIdle == <<slot, speed, num_drops, particle_size, r_speed, rgui_alive, driver_ident,
                  platform_format, converted_with, force_redraw, ran, aspect_update_pending,
                  aspect_commands, rectVars, convVars, natVars, thumbVars, bufVars>>

\* After rgui_init, with the effect None or Starfield configured
InitStarMenu ==
    /\ \E d \in StarMenuDims :
          /\ fb_width = d[1] /\ fb_height = d[2]
          /\ last_width = d[1] /\ last_height = d[2]
    /\ setting_effect \in {"NONE", "STARFIELD"}
    /\ effect = setting_effect
    /\ slot = 0
    /\ speed = SpeedUnit
    /\ \E o \in init_outcomes(effect, slot, fb_width, fb_height, ZeroParticle) :
          particle = o.p /\ seeded = o.seeded
    /\ phase = IF effect = "NONE" THEN "constructed" ELSE "seeded"
    /\ pool = IF effect = "NONE" THEN NoSeed
              ELSE Seed(effect, fb_width, fb_height, "rgui_init")
    /\ delta_time = 0 /\ num_drops = 0
    /\ touched = FALSE /\ respawned = FALSE /\ life = 0
    /\ particle_size = 0 /\ r_speed = 0
    /\ rgui_alive = TRUE /\ driver_ident = NoIdent /\ platform_format = "rgba4444"
    /\ converted_with = {} /\ force_redraw = TRUE /\ ran = <<>> /\ handler = "rgui_init"
    /\ aspect_update_pending = FALSE /\ aspect_commands = 0
    /\ IdleRect /\ IdleConv /\ IdleNat /\ IdleThumb

\* The user switches the particle effect between None and Starfield
StarSetEffect ==
    /\ setting_effect' = IF setting_effect = "NONE" THEN "STARFIELD" ELSE "NONE"
    /\ handler' = "settings"
    /\ UNCHANGED <<fb_width, fb_height, effect, particle, phase, delta_time, seeded,
                   touched, respawned, life, last_width, last_height, pool, starMenuIdle>>

\* rgui_frame: the pool is seeded at the current size when the effect changed,
\* then rgui_set_aspect_ratio may resize the frame buffer to d
StarFrame ==
    /\ \E d \in StarMenuDims \cup {<<fb_width, fb_height>>} :
          /\ fb_width' = d[1]
          /\ fb_height' = d[2]
    /\ effect' = setting_effect
    /\ IF frame_reseeds(setting_effect, effect)
       THEN /\ \E o \in init_outcomes(setting_effect, slot, fb_width, fb_height, particle) :
                  particle' = o.p /\ seeded' = o.seeded
            /\ phase' = "seeded"
            /\ life' = 0
            /\ pool' = Seed(setting_effect, fb_width, fb_height, "rgui_frame")
       ELSE UNCHANGED <<particle, seeded, phase, life, pool>>
    /\ handler' = "rgui_frame"
    /\ UNCHANGED <<delta_time, touched, respawned, setting_effect, last_width, last_height,
                   starMenuIdle>>

\* rgui_render that draws: the pool is reseeded when the size is not the one
\* last drawn at, then stepped
StarRender ==
    /\ render_steps(effect)
    /\ LET fb_size_changed == last_width # fb_width \/ last_height # fb_height
           reseeds == render_reseeds(fb_size_changed, effect)
       IN  /\ \E i \in IF reseeds
                       THEN init_outcomes(effect, slot, fb_width, fb_height, particle)
                       ELSE {[p |-> particle, seeded |-> seeded, drops |-> 0]} :
                 \E o \in render_outcomes(effect, slot, fb_width, fb_height, i.p,
                                          global_speed_factor(speed, SpeedUnit)) :
                    /\ particle' = o.p
                    /\ seeded' = i.seeded
                    /\ respawned' = o.respawned
                    /\ touched' = o.touched
           /\ pool' = IF reseeds THEN Seed(effect, fb_width, fb_height, "rgui_render")
                      ELSE pool
           /\ life' = IF reseeds \/ respawned THEN 1 ELSE Min(life + 1, LifeCap)
    /\ delta_time' = SpeedUnit
    /\ phase' = "stepped"
    /\ last_width' = fb_width
    /\ last_height' = fb_height
    /\ handler' = "rgui_render"
    /\ UNCHANGED <<fb_width, fb_height, effect, setting_effect, starMenuIdle>>

NextStarMenu == StarSetEffect \/ StarFrame \/ StarRender

SpecStarMenu == InitStarMenu /\ [][NextStarMenu]_vars

\* C29: under Starfield, after init and after every step, the depth c of the
\* particle satisfies 0 < c <= fb_width; a step that respawns resets the depth
\* to fb_width and draws a speed in [1.0, 1.19].
C29_StarDepthInRange ==
    (effect = "STARFIELD" /\ handler \in {"rgui_init", "rgui_render"})
    => /\ 0 < particle.c
       /\ particle.c <= fb_width * PosScale
       /\ respawned => /\ particle.c = fb_width * PosScale
                       /\ 100 <= particle.d /\ particle.d <= 119

\* A step ran on a pool seeded for a wider frame buffer and respawned the
\* particle at the depth of the current one.
C29_Witness ==
    /\ effect = "STARFIELD" /\ handler = "rgui_render" /\ phase = "stepped"
    /\ pool.w > fb_width /\ respawned
    /\ particle.c = fb_width * PosScale

(***************************************************************************)
(* rgui_set_aspect_ratio: the dimensions of the frame buffer and of the    *)
(* buffers allocated with it, on platforms other than the Wii.             *)
(***************************************************************************)
RGUI_MIN_FB_HEIGHT == 192
RGUI_MIN_FB_WIDTH == 256

AspectRatios == {"4_3", "16_9", "16_9_CENTRE", "16_10", "16_10_CENTRE"}

\* vp.full_width and vp.full_height that are explored
WindowWidths == {0, 100, 256, 257, 259, 300, 341, 384, 425, 426, 640}
WindowHeights == {0, 192, 193, 200, 216, 239, 240, 480}

\* The ratio as <<width, height>>; (w / h) * (float)x and its truncation are
\* floor(w * x / h) for every x the function meets
AspectFraction(ratio) ==
    CASE ratio \in {"16_9", "16_9_CENTRE"} -> <<16, 9>>
      [] ratio \in {"16_10", "16_10_CENTRE"} -> <<16, 10>>
      [] OTHER -> <<4, 3>>

\* RGUI_ROUND_FB_WIDTH: the width with its last bit cleared
RGUI_ROUND_FB_WIDTH(width) == width - (width % 2)

\* The height for a window full_height high
aspect_height(full_height) ==
    IF full_height < 240
    THEN IF full_height > RGUI_MIN_FB_HEIGHT THEN full_height ELSE RGUI_MIN_FB_HEIGHT
    ELSE 240

\* The width for the height, before the window is looked at
aspect_width(ratio, height) ==
    LET f == AspectFraction(ratio)
        w == IF height = 240
             THEN CASE f = <<16, 9>> -> RGUI_MAX_FB_WIDTH
                    [] f = <<16, 10>> -> 384
                    [] OTHER -> 320
             ELSE RGUI_ROUND_FB_WIDTH((f[1] * height) \div f[2])
    IN  IF w > RGUI_MAX_FB_WIDTH THEN RGUI_MAX_FB_WIDTH ELSE w

\* Mutant: the window width is taken as it is.
window_width_unbounded(full_width) == RGUI_ROUND_FB_WIDTH(full_width)

\* The width in a window narrower than the frame buffer
window_width(full_width) ==
    IF full_width > RGUI_MIN_FB_WIDTH THEN RGUI_ROUND_FB_WIDTH(full_width)
    ELSE RGUI_MIN_FB_WIDTH

\* rgui_frame_buf.width and .height as rgui_set_aspect_ratio computes them
aspect_dims(ratio, full_width, full_height) ==
    LET f == AspectFraction(ratio)
        height == aspect_height(full_height)
        width == aspect_width(ratio, height)
        narrow == window_width(full_width)
    IN  IF full_width < width
        THEN [width |-> narrow, height |-> (f[2] * narrow) \div f[1]]
        ELSE [width |-> width, height |-> height]

aspectIdle == <<rectVars, convVars, effect, slot, particle, phase, speed, delta_time,
                num_drops, seeded, touched, respawned, life, particle_size, r_speed,
                rgui_alive, driver_ident, platform_format, converted_with, setting_effect,
                last_width, last_height, pool, ran, natVars, thumbnail_queue_size,
                left_thumbnail_queue_size, show_fs_thumbnail, menu_rgui_inline_thumbnails,
                image_loads, last_delivery>>

InitAspect ==
    /\ fb_width = 0 /\ fb_height = 0
    /\ IdleRect /\ IdleConv /\ IdlePart /\ IdleMenu /\ IdleNat /\ IdleThumb

\* The user picks another aspect ratio or resizes the window
SetWindow ==
    /\ \/ \E ratio \in AspectRatios : aspect_call' = [aspect_call EXCEPT !.ratio = ratio]
       \/ \E w \in WindowWidths : aspect_call' = [aspect_call EXCEPT !.full_width = w]
       \/ \E h \in WindowHeights : aspect_call' = [aspect_call EXCEPT !.full_height = h]
    /\ aspect_call' # aspect_call
    /\ handler' = "settings"
    /\ UNCHANGED <<fb_width, fb_height, texture_bufs, thumbnails, force_redraw,
                   aspect_update_pending, aspect_commands, aspectIdle>>

\* rgui_set_aspect_ratio; allocated: how many of its five buffers calloc gives
\* (frame, background, fs, mini, mini left); locked: the aspect ratio is
\* locked and resize events are not ignored
SetAspectRatio ==
    \E allocated \in 0..5, locked \in BOOLEAN, delay_update \in BOOLEAN :
       LET d == aspect_dims(aspect_call.ratio, aspect_call.full_width,
                            aspect_call.full_height)
           buf == [width |-> d.width, height |-> d.height, data |-> TRUE]
           ok == allocated = 5
           o == rgui_set_video_config(aspect_update_pending, ok /\ locked, delay_update)
       IN  /\ fb_width' = d.width
           /\ fb_height' = d.height
           /\ texture_bufs' =
                 [frame |-> allocated >= 1,
                  background |-> IF allocated >= 1
                                 THEN [buf EXCEPT !.data = allocated >= 2] ELSE NoBuf,
                  fs_thumbnail |-> IF allocated >= 2
                                   THEN [buf EXCEPT !.data = allocated >= 3] ELSE NoBuf]
           /\ thumbnails' = [t \in DOMAIN thumbnails |-> NoThumbnail]
           /\ force_redraw' = (force_redraw \/ ok)
           /\ aspect_update_pending' = o.pending
           /\ aspect_commands' = o.commands
           /\ aspect_call' = [aspect_call EXCEPT !.ret = ok]
           /\ handler' = "rgui_set_aspect_ratio"
           /\ UNCHANGED aspectIdle

\* rgui_free: the buffers are freed, their dimensions set to 0
FreeBuffers ==
    /\ texture_bufs # NoTextureBufs
    /\ fb_width' = 0 /\ fb_height' = 0
    /\ texture_bufs' = NoTextureBufs
    /\ thumbnails' = [t \in DOMAIN thumbnails |-> NoThumbnail]
    /\ handler' = "rgui_free"
    /\ UNCHANGED <<aspect_call, force_redraw, aspect_update_pending, aspect_commands,
                   aspectIdle>>

NextAspect == SetWindow \/ SetAspectRatio \/ FreeBuffers

SpecAspect == InitAspect /\ [][NextAspect]_vars

====
